---- MODULE Spec2Model ----
(***************************************************************************)
(* RetroMiddleware: the phone normalizer, the money/date formatters, the   *)
(* order formatter and the lookup routes of the Shopify middleware.        *)
(*                                                                         *)
(* JavaScript values are modelled as follows.  A string that the code      *)
(* inspects character by character (a phone number, a money amount) is a   *)
(* sequence of one-character strings inside a tagged record; a string the  *)
(* code only builds or passes on is a TLA+ string.  null and undefined,    *)
(* which the code never tells apart, are the one value Null.               *)
(***************************************************************************)
EXTENDS Integers, Sequences, FiniteSets, TLC

VARIABLES
  phone,        \* the argument handed to normalizePhoneNumber
  normalized,   \* what normalizePhoneNumber returned for it
  normalizedLegacy, \* what the normalizer of the generic routes did with it
  renormalized, \* what normalizePhoneNumber returned for its own result
  moneySet,     \* the argument handed to formatMoney
  money,        \* what formatMoney returned for it
  order,        \* the order record handed to formatOrderForAI
  customer,     \* the separately fetched customer handed to it, or null
  tz,           \* the offset of the process's local time from UTC, in seconds
  latest,       \* the latestFulfillment that formatOrderForAI picked, or null
  shipDate,     \* what parseShippingDateFromTags returned for the order's tags
  formatted,    \* what formatOrderForAI returned, or that it threw
  inflight,     \* the requests whose handler awaits fetchShopifyData
  completed     \* the request whose handler finished last, with its response

vars == <<phone, normalized, normalizedLegacy, renormalized, moneySet, money, order, customer, tz, latest,
          shipDate, formatted, inflight, completed>>
phoneVars == <<phone, normalized, normalizedLegacy, renormalized>>
moneyVars == <<moneySet, money>>
formatVars == <<order, customer, tz, latest, shipDate, formatted>>
routeVars == <<inflight, completed>>

-----------------------------------------------------------------------------
(* JavaScript values *)

JsNull == [t |-> "null"]
JsString(s) == [t |-> "string", s |-> s]
Pending == [t |-> "pending"]

\* A number is the decimal m / 10^k, kept without trailing zeros in its fraction so
\* that equal numbers are equal values; NaN is a number of its own.
RECURSIVE JsDec(_, _)
JsDec(m, k) ==
  IF k > 0 /\ m % 10 = 0 THEN JsDec(m \div 10, k - 1)
  ELSE [t |-> "number", m |-> m, k |-> k]
JsNumber(n) == JsDec(n, 0)
JsNaN == [t |-> "NaN"]

\* A string the code does not look into, as a value.
Text(str) == [t |-> "text", str |-> str]

IsString(v) == v.t = "string"

Has(r, f) == f \in DOMAIN r

\* r?.f: the field, or null when r is null or has no such field
Field(r, f) == IF Has(r, f) THEN r[f] ELSE JsNull

\* JavaScript truthiness of a value: null, "", 0 are falsy.
Truthy(v) ==
  CASE "t" \notin DOMAIN v -> TRUE
    [] v.t = "null" -> FALSE
    [] v.t = "text" -> v.str # ""
    [] v.t = "string" -> Len(v.s) > 0
    [] v.t = "number" -> v.m # 0
    [] v.t = "NaN" -> FALSE
    [] OTHER -> TRUE

DigitChars == {"0", "1", "2", "3", "4", "5", "6", "7", "8", "9"}

IsDigit(c) == c \in DigitChars

\* s.replace(/\D/g, '')
StripNonDigits(s) == SelectSeq(s, IsDigit)

\* s.startsWith(p) for a one-character p
StartsWithChar(s, c) == Len(s) > 0 /\ s[1] = c

-----------------------------------------------------------------------------
(* Phone normalizer *)

MinPhoneDigits == 10

\* The normalizer without its length check: whatever digits remain get a '+'.
normalizePhoneNumber_NoLengthCheck(p) ==
  IF ~Truthy(p) \/ ~IsString(p) THEN JsNull
  ELSE IF StartsWithChar(p.s, "+") THEN p
       ELSE JsString(<<"+">> \o StripNonDigits(p.s))

\* The normalizer putting a '+' in front of the string it was given.
normalizePhoneNumber_PrefixesInput(p) ==
  IF ~Truthy(p) \/ ~IsString(p) THEN JsNull
  ELSE IF Len(StripNonDigits(p.s)) < MinPhoneDigits THEN JsNull
       ELSE JsString(<<"+">> \o p.s)

normalizePhoneNumber(p) ==
  IF ~Truthy(p) \/ ~IsString(p) THEN JsNull
  ELSE LET digits == StripNonDigits(p.s) IN
       IF Len(digits) < MinPhoneDigits THEN JsNull
       ELSE IF StartsWithChar(p.s, "+") THEN p
            ELSE JsString(<<"+">> \o digits)

\* A call either throws (a TypeError) or returns a value.
Raised == [raised |-> TRUE, error |-> "TypeError"]
Returned(v) == [raised |-> FALSE, value |-> v]

\* normalizePhoneNumber of the generic routes: it prepends a country code or a bare
\* '+' to whatever digits remain.  raised: phone.replace is not a function.
normalizePhoneNumberLegacy(p) ==
  IF ~Truthy(p) THEN Returned(JsNull)
  ELSE IF ~IsString(p) THEN Raised
  ELSE LET digits == StripNonDigits(p.s) IN
       IF Len(digits) = 10 THEN Returned(JsString(<<"+", "1">> \o digits))
       ELSE IF Len(digits) = 11 /\ StartsWithChar(digits, "1")
            THEN Returned(JsString(<<"+">> \o digits))
            ELSE Returned(JsString(<<"+">> \o digits))

-----------------------------------------------------------------------------
(* Bounds of the phone inputs *)

MaxPhoneLen == 12
MaxNonDigits == 2

PhoneAlphabet == {"5", "-", "+"}

NonDigitCount(s) == Len(s) - Len(StripNonDigits(s))

\* "555-123-4567", the phone of the specification's scenario
ScenarioPhone == <<"5", "5", "5", "-", "1", "2", "3", "-", "4", "5", "6", "7">>

SamplePhones ==
  { JsNull,
    JsNumber(5551234),
    JsString(ScenarioPhone),
    JsString(<<"+", "1", " ", "(", "5", "5", "5", ")", " ", "1", "2", "3", "-", "4", "5", "6", "7">>),
    JsString(<<"1", "2", "3", "4", "5">>) }

-----------------------------------------------------------------------------
(* Specification of the phone normalizer: a caller types a phone string (or *)
(* hands over one of the samples) and has it normalized.                    *)

NoPhone ==
  phone = JsNull /\ normalized = Pending /\ normalizedLegacy = Pending /\ renormalized = Pending
NoMoney == moneySet = JsNull /\ money = Pending
NoRoutes == inflight = <<>> /\ completed = JsNull
NoFormat ==
  /\ order = JsNull /\ customer = JsNull /\ tz = 0
  /\ latest = JsNull /\ shipDate = Pending /\ formatted = Pending

InitPhone ==
  /\ phone = JsString(<<>>)
  /\ normalized = Pending
  /\ normalizedLegacy = Pending
  /\ renormalized = Pending
  /\ NoMoney
  /\ NoFormat
  /\ NoRoutes

TypeChar(c) ==
  /\ normalized = Pending /\ normalizedLegacy = Pending
  /\ IsString(phone)
  /\ Len(phone.s) < MaxPhoneLen
  /\ NonDigitCount(Append(phone.s, c)) <= MaxNonDigits
  /\ phone' = JsString(Append(phone.s, c))
  /\ UNCHANGED <<normalized, normalizedLegacy, renormalized, moneyVars, formatVars, routeVars>>

PickSample(p) ==
  /\ normalized = Pending /\ normalizedLegacy = Pending
  /\ phone = JsString(<<>>)
  /\ phone' = p
  /\ UNCHANGED <<normalized, normalizedLegacy, renormalized, moneyVars, formatVars, routeVars>>

Normalize ==
  /\ normalized = Pending
  /\ normalized' = normalizePhoneNumber(phone)
  /\ UNCHANGED <<phone, normalizedLegacy, renormalized, moneyVars, formatVars, routeVars>>

\* The same argument goes to the normalizer of the generic routes.
NormalizeLegacy ==
  /\ normalizedLegacy = Pending
  /\ normalizedLegacy' = normalizePhoneNumberLegacy(phone)
  /\ UNCHANGED <<phone, normalized, renormalized, moneyVars, formatVars, routeVars>>

\* The result of normalizePhoneNumber is normalized once more.
Renormalize ==
  /\ normalized # Pending
  /\ renormalized = Pending
  /\ renormalized' = normalizePhoneNumber(normalized)
  /\ UNCHANGED <<phone, normalized, normalizedLegacy, moneyVars, formatVars, routeVars>>

NextPhone ==
  \/ \E c \in PhoneAlphabet : TypeChar(c)
  \/ \E p \in SamplePhones : PickSample(p)
  \/ Normalize
  \/ NormalizeLegacy
  \/ Renormalize

SpecPhone == InitPhone /\ [][NextPhone]_vars

-----------------------------------------------------------------------------
(* Numbers in strings: parseFloat, ToNumber and the en-US currency format *)

DigitVal(c) ==
  CASE c = "0" -> 0 [] c = "1" -> 1 [] c = "2" -> 2 [] c = "3" -> 3 [] c = "4" -> 4
    [] c = "5" -> 5 [] c = "6" -> 6 [] c = "7" -> 7 [] c = "8" -> 8 [] c = "9" -> 9

RECURSIVE Pow10(_)
Pow10(k) == IF k = 0 THEN 1 ELSE 10 * Pow10(k - 1)

\* The number of digits of s from index i on, up to the first non-digit.
RECURSIVE DigitRun(_, _)
DigitRun(s, i) ==
  IF i <= Len(s) /\ IsDigit(s[i]) THEN 1 + DigitRun(s, i + 1) ELSE 0

RECURSIVE DigitsToNat(_)
DigitsToNat(ds) ==
  IF ds = <<>> THEN 0
  ELSE 10 * DigitsToNat(SubSeq(ds, 1, Len(ds) - 1)) + DigitVal(ds[Len(ds)])

\* The longest prefix of s that is a decimal literal: [sign] digits [. digits] or
\* [sign] . digits.  used is the number of characters it takes, 0 when there is none.
DecimalPrefix(s) ==
  LET signLen == IF Len(s) > 0 /\ s[1] \in {"-", "+"} THEN 1 ELSE 0
      neg == signLen = 1 /\ s[1] = "-"
      intLen == DigitRun(s, signLen + 1)
      dotAt == signLen + intLen + 1
      hasDot == dotAt <= Len(s) /\ s[dotAt] = "."
      fracLen == IF hasDot THEN DigitRun(s, dotAt + 1) ELSE 0
      intDigits == SubSeq(s, signLen + 1, signLen + intLen)
      fracDigits == SubSeq(s, dotAt + 1, dotAt + fracLen)
      mag == DigitsToNat(intDigits \o fracDigits)
  IN IF intLen = 0 /\ fracLen = 0 THEN [used |-> 0, value |-> JsNaN]
     ELSE [used |-> signLen + intLen + (IF hasDot /\ (intLen > 0 \/ fracLen > 0) THEN 1 + fracLen ELSE 0),
           value |-> JsDec(IF neg THEN 0 - mag ELSE mag, fracLen)]

\* parseFloat(v): the number a string starts with, NaN when it starts with none.
parseFloat(v) ==
  CASE v.t = "string" -> DecimalPrefix(v.s).value
    [] v.t \in {"number", "NaN"} -> v
    [] OTHER -> JsNaN

\* ToNumber(v), which Intl.NumberFormat applies to the value it formats: the whole
\* string must be a decimal literal; the empty string is 0.
ToNumber(v) ==
  CASE v.t = "string" ->
         IF v.s = <<>> THEN JsNumber(0)
         ELSE IF DecimalPrefix(v.s).used = Len(v.s) THEN DecimalPrefix(v.s).value
              ELSE JsNaN
    [] v.t \in {"number", "NaN"} -> v
    [] v.t = "null" -> JsNumber(0)
    [] OTHER -> JsNaN

Abs(n) == IF n < 0 THEN 0 - n ELSE n

\* The number of hundredths nearest to |m| / 10^k, halves rounded away from zero.
RoundToCents(m, k) ==
  IF k <= 2 THEN Abs(m) * Pow10(2 - k)
  ELSE LET unit == Pow10(k - 2)
           q == Abs(m) \div unit
           r == Abs(m) % unit
       IN IF 2 * r >= unit THEN q + 1 ELSE q

Pad(n, width) ==
  IF width = 3 /\ n < 10 THEN "00" \o ToString(n)
  ELSE IF (width = 3 /\ n < 100) \/ (width = 2 /\ n < 10) THEN "0" \o ToString(n)
  ELSE ToString(n)

\* A whole number with the en-US thousands separator.
RECURSIVE Grouped(_)
Grouped(n) ==
  IF n < 1000 THEN ToString(n)
  ELSE Grouped(n \div 1000) \o "," \o Pad(n % 1000, 3)

CurrencySymbol(code) ==
  CASE code = "USD" -> "$"
    [] code = "CAD" -> "CA$"
    [] OTHER -> code \o " "

\* new Intl.NumberFormat('en-US', {style: 'currency', currency}).format(amount)
IntlCurrencyFormat(currencyCode, amount) ==
  LET n == ToNumber(amount) IN
  IF n = JsNaN THEN CurrencySymbol(currencyCode) \o "NaN"
  ELSE LET cents == RoundToCents(n.m, n.k) IN
       (IF n.m < 0 THEN "-" ELSE "") \o CurrencySymbol(currencyCode)
         \o Grouped(cents \div 100) \o "." \o Pad(cents % 100, 2)

-----------------------------------------------------------------------------
(* Money formatter *)

formatMoney(ms) ==
  LET m == IF Truthy(Field(ms, "shopMoney")) THEN ms.shopMoney ELSE ms IN
  IF ~Truthy(Field(m, "amount")) \/ parseFloat(m.amount) = JsNumber(0) THEN JsNull
  ELSE Text(IntlCurrencyFormat(m.currencyCode, m.amount))

-----------------------------------------------------------------------------
(* Bounds of the money inputs *)

MaxAmountLen == 4

AmountAlphabet == {"0", "4", ".", "-"}

CurrencyCodes == {"USD", "CAD"}

Money(amount, code) == [amount |-> amount, currencyCode |-> code]
MoneySetOf(m) == [shopMoney |-> m]

\* "0.00" and "12.50", and a MoneyV2 handed over without its shopMoney wrapper
SampleMoneySets ==
  { JsNull,
    MoneySetOf(Money(JsNull, "USD")),
    MoneySetOf(Money(JsString(<<"0", ".", "0", "0">>), "USD")),
    MoneySetOf(Money(JsString(<<"1", "2", ".", "5", "0">>), "USD")),
    MoneySetOf(Money(JsString(<<"1", "2", "3", "4", ".", "5">>), "USD")),
    Money(JsString(<<"9", ".", "9", "9">>), "USD"),
    MoneySetOf(Money(JsNumber(0), "USD")),
    MoneySetOf(Money(JsDec(1250, 2), "USD")) }

-----------------------------------------------------------------------------
(* Specification of the money formatter: an amount string is built character *)
(* by character (or a sample is taken) and formatted.                        *)

InitMoney ==
  /\ moneySet \in {MoneySetOf(Money(JsString(<<>>), code)) : code \in CurrencyCodes}
  /\ money = Pending
  /\ NoPhone
  /\ NoFormat
  /\ NoRoutes

AmountChar(c) ==
  /\ money = Pending
  /\ Has(moneySet, "shopMoney")
  /\ moneySet.shopMoney.amount.t = "string"
  /\ Len(moneySet.shopMoney.amount.s) < MaxAmountLen
  /\ moneySet' = MoneySetOf(Money(JsString(Append(moneySet.shopMoney.amount.s, c)),
                                  moneySet.shopMoney.currencyCode))
  /\ UNCHANGED <<money, phoneVars, formatVars, routeVars>>

PickMoney(ms) ==
  /\ money = Pending
  /\ moneySet = MoneySetOf(Money(JsString(<<>>), "USD"))
  /\ moneySet' = ms
  /\ UNCHANGED <<money, phoneVars, formatVars, routeVars>>

FormatMoney ==
  /\ money = Pending
  /\ money' = formatMoney(moneySet)
  /\ UNCHANGED <<moneySet, phoneVars, formatVars, routeVars>>

NextMoney ==
  \/ \E c \in AmountAlphabet : AmountChar(c)
  \/ \E ms \in SampleMoneySets : PickMoney(ms)
  \/ FormatMoney

SpecMoney == InitMoney /\ [][NextMoney]_vars

-----------------------------------------------------------------------------
(* Calendar dates and instants.  An instant is a count of seconds since     *)
(* 1970-01-01T00:00:00Z, as Date.prototype.getTime() / 1000.                *)

InvalidDate == [t |-> "InvalidDate"]
DateOf(secs) == [t |-> "date", secs |-> secs]

\* Days since 1970-01-01 of the civil date y-m-d (proleptic Gregorian, y >= 1970).
DaysFromCivil(y, m, d) ==
  LET yy == IF m <= 2 THEN y - 1 ELSE y
      era == yy \div 400
      yoe == yy - era * 400
      mp == IF m > 2 THEN m - 3 ELSE m + 9
      doy == (153 * mp + 2) \div 5 + d - 1
      doe == yoe * 365 + yoe \div 4 - yoe \div 100 + doy
  IN era * 146097 + doe - 719468

\* The civil date of the day z days after 1970-01-01.
CivilFromDays(z) ==
  LET zz == z + 719468
      era == zz \div 146097
      doe == zz - era * 146097
      yoe == (doe - doe \div 1460 + doe \div 36524 - doe \div 146096) \div 365
      doy == doe - (365 * yoe + yoe \div 4 - yoe \div 100)
      mp == (5 * doy + 2) \div 153
      d == doy - (153 * mp + 2) \div 5 + 1
      m == IF mp < 10 THEN mp + 3 ELSE mp - 9
      y == yoe + era * 400 + (IF m <= 2 THEN 1 ELSE 0)
  IN [year |-> y, month |-> m, day |-> d]

IsLeap(y) == (y % 4 = 0 /\ y % 100 # 0) \/ y % 400 = 0

DaysInMonth(y, m) ==
  IF m = 2 THEN (IF IsLeap(y) THEN 29 ELSE 28)
  ELSE IF m \in {4, 6, 9, 11} THEN 30 ELSE 31

AllDigits(s) == \A i \in 1..Len(s) : IsDigit(s[i])

\* Whether s[from..to] is exactly the digits of a number, and that number.
NumAt(s, from, to) == DigitsToNat(SubSeq(s, from, to))
DigitsAt(s, from, to) == to <= Len(s) /\ AllDigits(SubSeq(s, from, to))

\* new Date(str) for the ISO 8601 shapes YYYY-MM-DD, YYYY-MM-DDTHH:MM:SSZ and
\* YYYY-MM-DDTHH:MM:SS.mmmZ (a date alone is midnight UTC); Invalid Date otherwise.
NewDate(v) ==
  IF v.t # "string" THEN InvalidDate
  ELSE LET s == v.s
           n == Len(s)
           dateOk == /\ n >= 10
                     /\ DigitsAt(s, 1, 4) /\ s[5] = "-"
                     /\ DigitsAt(s, 6, 7) /\ s[8] = "-"
                     /\ DigitsAt(s, 9, 10)
           y == NumAt(s, 1, 4)
           mo == NumAt(s, 6, 7)
           d == NumAt(s, 9, 10)
           civilOk == /\ y >= 1970 /\ y <= 2037
                      /\ mo >= 1 /\ mo <= 12
                      /\ d >= 1 /\ d <= DaysInMonth(y, mo)
           timeOk == /\ n \in {20, 24}
                     /\ s[11] = "T"
                     /\ DigitsAt(s, 12, 13) /\ s[14] = ":"
                     /\ DigitsAt(s, 15, 16) /\ s[17] = ":"
                     /\ DigitsAt(s, 18, 19)
                     /\ IF n = 20 THEN s[20] = "Z"
                        ELSE s[20] = "." /\ DigitsAt(s, 21, 23) /\ s[24] = "Z"
           hh == NumAt(s, 12, 13)
           mi == NumAt(s, 15, 16)
           ss == NumAt(s, 18, 19)
       IN IF ~dateOk THEN InvalidDate
          ELSE IF ~civilOk THEN InvalidDate
          ELSE IF n = 10 THEN DateOf(DaysFromCivil(y, mo, d) * 86400)
          ELSE IF ~timeOk THEN InvalidDate
          ELSE IF hh > 23 \/ mi > 59 \/ ss > 59 THEN InvalidDate
          ELSE DateOf(DaysFromCivil(y, mo, d) * 86400 + hh * 3600 + mi * 60 + ss)

\* The digits of n, zero-padded to width characters.
RECURSIVE NatToDigits(_, _)
NatToDigits(n, width) ==
  IF width = 0 THEN <<>>
  ELSE Append(NatToDigits(n \div 10, width - 1),
              CASE n % 10 = 0 -> "0" [] n % 10 = 1 -> "1" [] n % 10 = 2 -> "2"
                [] n % 10 = 3 -> "3" [] n % 10 = 4 -> "4" [] n % 10 = 5 -> "5"
                [] n % 10 = 6 -> "6" [] n % 10 = 7 -> "7" [] n % 10 = 8 -> "8"
                [] n % 10 = 9 -> "9")

IsoDateChars(y, m, d) ==
  NatToDigits(y, 4) \o <<"-">> \o NatToDigits(m, 2) \o <<"-">> \o NatToDigits(d, 2)

IsoTimeChars(hh, mi, ss) ==
  NatToDigits(hh, 2) \o <<":">> \o NatToDigits(mi, 2) \o <<":">> \o NatToDigits(ss, 2)

\* date.toISOString() of a valid date: YYYY-MM-DDTHH:MM:SS.000Z
toISOString(date) ==
  LET c == CivilFromDays(date.secs \div 86400)
      r == date.secs % 86400
  IN JsString(IsoDateChars(c.year, c.month, c.day) \o <<"T">>
              \o IsoTimeChars(r \div 3600, (r % 3600) \div 60, r % 60)
              \o <<".", "0", "0", "0", "Z">>)

MonthName(m) ==
  CASE m = 1 -> "January" [] m = 2 -> "February" [] m = 3 -> "March"
    [] m = 4 -> "April" [] m = 5 -> "May" [] m = 6 -> "June" [] m = 7 -> "July"
    [] m = 8 -> "August" [] m = 9 -> "September" [] m = 10 -> "October"
    [] m = 11 -> "November" [] m = 12 -> "December"

\* date.toLocaleDateString('en-US', {year: 'numeric', month: 'long', day: 'numeric'})
\* in a process whose local time is offset seconds ahead of UTC: no timeZone option
\* is given, so the calendar day is the local one.
toLocaleDateString(date, offset) ==
  LET c == CivilFromDays((date.secs + offset) \div 86400)
  IN MonthName(c.month) \o " " \o ToString(c.day) \o ", " \o ToString(c.year)

formatDate(dateString, offset) ==
  IF ~Truthy(dateString) THEN JsNull
  ELSE LET date == NewDate(dateString) IN
       IF date = InvalidDate THEN JsNull
       ELSE Text(toLocaleDateString(date, offset))

-----------------------------------------------------------------------------
(* Tag-based ship-date parser *)

UpperLetters == <<"A", "B", "C", "D", "E", "F", "G", "H", "I", "J", "K", "L", "M",
                  "N", "O", "P", "Q", "R", "S", "T", "U", "V", "W", "X", "Y", "Z">>
LowerLetters == <<"a", "b", "c", "d", "e", "f", "g", "h", "i", "j", "k", "l", "m",
                  "n", "o", "p", "q", "r", "s", "t", "u", "v", "w", "x", "y", "z">>

toLowerCaseChar(c) ==
  IF \E i \in 1..26 : UpperLetters[i] = c
  THEN LowerLetters[CHOOSE i \in 1..26 : UpperLetters[i] = c]
  ELSE c

toLowerCase(s) == [i \in 1..Len(s) |-> toLowerCaseChar(s[i])]

startsWith(s, prefix) ==
  Len(s) >= Len(prefix) /\ SubSeq(s, 1, Len(prefix)) = prefix

\* The indices of s that hold the character c, and the k-th piece of s.split(c)
\* (k from 0); null when there are fewer pieces.
IndicesOf(s, c) == {i \in 1..Len(s) : s[i] = c}

NthIndexOf(s, c, k) ==
  CHOOSE i \in IndicesOf(s, c) : Cardinality({j \in IndicesOf(s, c) : j < i}) = k - 1

SplitPiece(s, c, k) ==
  LET cnt == Cardinality(IndicesOf(s, c))
      from == IF k = 0 THEN 1 ELSE NthIndexOf(s, c, k) + 1
      to == IF k = cnt THEN Len(s) ELSE NthIndexOf(s, c, k + 1) - 1
  IN IF k > cnt THEN JsNull ELSE JsString(SubSeq(s, from, to))

IsSpace(c) == c \in {" ", "\t", "\n"}

RECURSIVE trimStart(_)
trimStart(s) == IF s # <<>> /\ IsSpace(s[1]) THEN trimStart(Tail(s)) ELSE s

RECURSIVE trimEnd(_)
trimEnd(s) ==
  IF s # <<>> /\ IsSpace(s[Len(s)]) THEN trimEnd(SubSeq(s, 1, Len(s) - 1)) ELSE s

trim(s) == trimEnd(trimStart(s))

TagMarker == <<"w", "3", "d", "d", ":">>

IsArray(v) == v.t = "array"
JsArray(items) == [t |-> "array", items |-> items]

\* tags.find(tag => tag.toLowerCase().startsWith('w3dd:')): the first such tag
FindDateTag(items) ==
  LET hits == {i \in 1..Len(items) : startsWith(toLowerCase(items[i]), TagMarker)}
  IN IF hits = {} THEN JsNull
     ELSE JsString(items[CHOOSE i \in hits : \A j \in hits : i <= j])

parseShippingDateFromTags(tags, offset) ==
  IF ~IsArray(tags) THEN JsNull
  ELSE LET dateTag == FindDateTag(tags.items) IN
       IF ~Truthy(dateTag) THEN JsNull
       ELSE LET piece == SplitPiece(dateTag.s, ":", 1)
                dateString == IF piece = JsNull THEN JsNull ELSE JsString(trim(piece.s))
            IN IF ~Truthy(dateString) THEN JsNull
               ELSE LET date == NewDate(JsString(dateString.s
                                   \o <<"T", "0", "0", ":", "0", "0", ":", "0", "0", "Z">>))
                    IN IF date = InvalidDate THEN JsNull
                       ELSE formatDate(toISOString(date), offset)

-----------------------------------------------------------------------------
(* Array helpers *)

\* arr.filter(Boolean).join(sep) over an array of strings and nulls
RECURSIVE JoinStr(_, _)
JoinStr(strs, sep) ==
  IF strs = <<>> THEN ""
  ELSE IF Len(strs) = 1 THEN strs[1]
  ELSE strs[1] \o sep \o JoinStr(Tail(strs), sep)

FilterBooleanJoin(values, sep) ==
  LET kept == SelectSeq(values, Truthy)
  IN Text(JoinStr([i \in 1..Len(kept) |-> kept[i].str], sep))

\* a + b on numbers
AddNum(a, b) ==
  IF a = JsNaN \/ b = JsNaN THEN JsNaN
  ELSE LET k == IF a.k > b.k THEN a.k ELSE b.k
       IN JsDec(a.m * Pow10(k - a.k) + b.m * Pow10(k - b.k), k)

\* The comparator (a, b) => new Date(b.createdAt) - new Date(a.createdAt); a NaN
\* result counts as 0, as Array.prototype.sort takes it.
CompareCreatedDesc(a, b) ==
  LET da == NewDate(Field(a, "createdAt"))
      db == NewDate(Field(b, "createdAt"))
  IN IF da = InvalidDate \/ db = InvalidDate THEN 0 ELSE db.secs - da.secs

\* An insertion that puts x before the elements it ties with.
InsertByCreatedDesc_BeforeTies(sorted, x) ==
  LET notEarlier == {i \in 1..Len(sorted) : CompareCreatedDesc(sorted[i], x) >= 0}
  IN IF notEarlier = {} THEN Append(sorted, x)
     ELSE LET at == CHOOSE i \in notEarlier : \A j \in notEarlier : i <= j
          IN SubSeq(sorted, 1, at - 1) \o <<x>> \o SubSeq(sorted, at, Len(sorted))

\* Array.prototype.sort is stable: x goes before the first element that the
\* comparator puts strictly after it, and after every element it ties with.
InsertByCreatedDesc(sorted, x) ==
  LET later == {i \in 1..Len(sorted) : CompareCreatedDesc(sorted[i], x) > 0}
  IN IF later = {} THEN Append(sorted, x)
     ELSE LET at == CHOOSE i \in later : \A j \in later : i <= j
          IN SubSeq(sorted, 1, at - 1) \o <<x>> \o SubSeq(sorted, at, Len(sorted))

RECURSIVE SortByCreatedDesc(_)
SortByCreatedDesc(items) ==
  IF items = <<>> THEN <<>>
  ELSE InsertByCreatedDesc(SortByCreatedDesc(SubSeq(items, 1, Len(items) - 1)),
                           items[Len(items)])

-----------------------------------------------------------------------------
(* Order formatter.  The GraphQL connection wrappers are flattened:         *)
(* lineItems is the array of the nodes of lineItems.edges, and a            *)
(* fulfillment's fulfillmentLineItems is the array of the node.lineItem.id  *)
(* of its edges.  A structure that is absent is null.                       *)

\* An allow-list that holds the first product type only.
PhysicalProductTypes_PatchesOnly == {"Embroidered Patches"}

\* const physicalProductTypes
PhysicalProductTypes == {"Embroidered Patches", "Alterations"}


\* The latest fulfillment taken to be the first of the list as it arrives.
LatestFulfillment_Unsorted(orderNode) ==
  LET fs == Field(orderNode, "fulfillments")
  IN IF IsArray(fs) /\ Len(fs.items) > 0 THEN fs.items[1] ELSE JsNull

\* The latest of the fulfillments that carry tracking, when there is one.
LatestFulfillment_Tracked(orderNode) ==
  LET fs == Field(orderNode, "fulfillments")
      tracked == IF IsArray(fs)
                 THEN SelectSeq(fs.items, LAMBDA f : IsArray(Field(f, "trackingInfo"))
                                                      /\ Len(f.trackingInfo.items) > 0)
                 ELSE <<>>
  IN IF tracked # <<>> THEN SortByCreatedDesc(tracked)[1]
     ELSE IF IsArray(fs) /\ Len(fs.items) > 0 THEN SortByCreatedDesc(fs.items)[1]
     ELSE JsNull

\* [...orderNode.fulfillments].sort(...)[0], or null
LatestFulfillment(orderNode) ==
  LET fs == Field(orderNode, "fulfillments")
  IN IF IsArray(fs) /\ Len(fs.items) > 0 THEN SortByCreatedDesc(fs.items)[1] ELSE JsNull

\* The identifiers covered by the latest fulfillment alone.
FulfilledLineItemIds_LatestOnly(orderNode) ==
  LET f == LatestFulfillment(orderNode)
  IN IF f = JsNull THEN {}
     ELSE {f.fulfillmentLineItems.items[j] : j \in 1..Len(f.fulfillmentLineItems.items)}

\* The identifiers that the two forEach loops add to fulfilledLineItemIds.
FulfilledLineItemIds(orderNode) ==
  UNION { {orderNode.fulfillments.items[i].fulfillmentLineItems.items[j] :
             j \in 1..Len(orderNode.fulfillments.items[i].fulfillmentLineItems.items)} :
          i \in 1..Len(orderNode.fulfillments.items) }

\* The amount of the first allocation alone.
SumAllocations_FirstOnly(allocations) ==
  IF allocations = <<>> THEN JsNumber(0)
  ELSE AddNum(JsNumber(0), parseFloat(allocations[1].allocatedAmountSet.shopMoney.amount))

\* reduce((total, allocation) => total + parseFloat(allocation...amount), 0)
RECURSIVE SumAllocations(_)
SumAllocations(allocations) ==
  IF allocations = <<>> THEN JsNumber(0)
  ELSE AddNum(SumAllocations(SubSeq(allocations, 1, Len(allocations) - 1)),
              parseFloat(allocations[Len(allocations)].allocatedAmountSet.shopMoney.amount))

FormatLineItem(node, fulfilledIds) ==
  LET itemDiscountAmount == SumAllocations(node.discountAllocations.items)
      productType == IF Truthy(Field(Field(Field(node, "variant"), "product"), "productType"))
                     THEN node.variant.product.productType.str ELSE ""
      isPhysical == node.requiresShipping \/ productType \in PhysicalProductTypes
  IN [ name |-> node.title,
       variant |-> IF Truthy(Field(Field(node, "variant"), "title"))
                   THEN node.variant.title ELSE Text("Default"),
       quantity |-> node.quantity,
       unitPrice |-> formatMoney(node.originalUnitPriceSet),
       totalPrice |-> formatMoney(node.discountedTotalSet),
       discount |-> formatMoney([shopMoney |->
                      [amount |-> itemDiscountAmount,
                       currencyCode |-> node.originalUnitPriceSet.shopMoney.currencyCode]]),
       itemCategory |-> IF isPhysical THEN "PHYSICAL" ELSE "DIGITAL",
       fulfillmentStatus |-> IF node.id \in fulfilledIds THEN "FULFILLED" ELSE "UNFULFILLED" ]

\* The accesses of formatOrderForAI that throw a TypeError: a property read on
\* null or undefined.
FormatRaises(orderNode, customerNode) ==
  LET fs == Field(orderNode, "fulfillments")
      lis == Field(orderNode, "lineItems")
  IN \/ ~IsArray(fs)                                    \* orderNode.fulfillments.forEach
     \/ \E i \in 1..Len(fs.items) :                     \* fulfillmentLineItems.edges.forEach
          ~IsArray(Field(fs.items[i], "fulfillmentLineItems"))
     \/ ~IsArray(lis)                                   \* orderNode.lineItems.edges.map
     \/ \E i \in 1..Len(lis.items) :
          \/ ~IsArray(Field(lis.items[i], "discountAllocations"))
          \/ \E j \in 1..Len(lis.items[i].discountAllocations.items) :
               ~Truthy(Field(Field(lis.items[i].discountAllocations.items[j],
                                   "allocatedAmountSet"), "shopMoney"))
          \/ ~Truthy(Field(Field(lis.items[i], "originalUnitPriceSet"), "shopMoney"))
     \/ Len(lis.items) = 0                              \* lineItems[0].quantity
     \/ /\ Truthy(Field(customerNode, "firstName"))     \* orderNode.customer.lastName
           \/ Truthy(Field(Field(orderNode, "customer"), "firstName"))
        /\ ~Truthy(Field(customerNode, "lastName"))
        /\ ~Truthy(Field(orderNode, "customer"))

\* latestFulfillment?.trackingInfo?.[0]
FirstTracking(latestFulfillment) ==
  IF IsArray(Field(latestFulfillment, "trackingInfo"))
     /\ Len(latestFulfillment.trackingInfo.items) > 0
  THEN latestFulfillment.trackingInfo.items[1] ELSE JsNull

\* v || null
OrNull(v) == IF Truthy(v) THEN v ELSE JsNull

\* The summary that names the last item of the list.
ItemsSummary_LastItem(lineItems) ==
  LET last == lineItems[Len(lineItems)]
  IN IF Len(lineItems) > 1
     THEN Text(ToString(last.quantity) \o "x " \o last.name.str \o " and "
               \o ToString(Len(lineItems) - 1) \o " other item(s)")
     ELSE Text(ToString(last.quantity) \o "x " \o last.name.str)

ItemsSummary(lineItems) ==
  IF Len(lineItems) > 1
  THEN Text(ToString(lineItems[1].quantity) \o "x " \o lineItems[1].name.str \o " and "
            \o ToString(Len(lineItems) - 1) \o " other item(s)")
  ELSE Text(ToString(lineItems[1].quantity) \o "x " \o lineItems[1].name.str)

\* The name joined from whatever names there are, with no placeholder.
CustomerName_NoPlaceholder(orderNode, customerFirst, customerLast) ==
  FilterBooleanJoin(
    << IF Truthy(customerFirst) THEN customerFirst
       ELSE Field(Field(orderNode, "customer"), "firstName"),
       IF Truthy(customerLast) THEN customerLast
       ELSE Field(Field(orderNode, "customer"), "lastName") >>,
    " ")

CustomerName(orderNode, customerFirst, customerLast) ==
  IF Truthy(customerFirst) \/ Truthy(Field(Field(orderNode, "customer"), "firstName"))
  THEN FilterBooleanJoin(
         << IF Truthy(customerFirst) THEN customerFirst ELSE orderNode.customer.firstName,
            IF Truthy(customerLast) THEN customerLast ELSE orderNode.customer.lastName >>,
         " ")
  ELSE Text("Valued Customer")

ShippingAddress(orderNode) ==
  IF Truthy(Field(orderNode, "shippingAddress"))
  THEN FilterBooleanJoin(
         << Field(orderNode.shippingAddress, "address1"),
            Field(orderNode.shippingAddress, "address2"),
            Field(orderNode.shippingAddress, "city"),
            Field(orderNode.shippingAddress, "provinceCode"),
            Field(orderNode.shippingAddress, "zip") >>, ", ")
  ELSE JsNull

\* The shipping information that keeps address and tracking of an order that does
\* not ship.
ShippingInfo_KeepsDetails(orderRequiresShipping, shippingAddress, expectedShipDate, actualShippedDate, tracking) ==
  [ isShippable |-> orderRequiresShipping,
    address |-> shippingAddress,
    statusMessage |-> IF ~orderRequiresShipping THEN Text("This order does not require shipping.")
                      ELSE IF Truthy(expectedShipDate) THEN expectedShipDate
                      ELSE IF Truthy(actualShippedDate) THEN actualShippedDate
                      ELSE Text("Awaiting shipment"),
    carrier |-> OrNull(Field(tracking, "company")),
    trackingNumber |-> OrNull(Field(tracking, "number")),
    trackingUrl |-> OrNull(Field(tracking, "url")) ]

ShippingInfo(orderRequiresShipping, shippingAddress, expectedShipDate, actualShippedDate, tracking) ==
  IF orderRequiresShipping
  THEN [ isShippable |-> TRUE,
         address |-> shippingAddress,
         statusMessage |-> IF Truthy(expectedShipDate) THEN expectedShipDate
                           ELSE IF Truthy(actualShippedDate) THEN actualShippedDate
                           ELSE Text("Awaiting shipment"),
         carrier |-> OrNull(Field(tracking, "company")),
         trackingNumber |-> OrNull(Field(tracking, "number")),
         trackingUrl |-> OrNull(Field(tracking, "url")) ]
  ELSE [ isShippable |-> FALSE,
         address |-> JsNull,
         statusMessage |-> Text("This order does not require shipping."),
         carrier |-> JsNull,
         trackingNumber |-> JsNull,
         trackingUrl |-> JsNull ]

\* The pricing fields of the result and the order's money sets they format.
PricingFields ==
  [ subtotal |-> "subtotalPriceSet", shipping |-> "totalShippingPriceSet",
    tax |-> "totalTaxSet", totalDiscount |-> "totalDiscountsSet", total |-> "totalPriceSet" ]

\* The returned object, from the values the function computed before its return.
FormattedOrder(orderNode, customerNode, offset, expectedShipDate, latestFulfillment, lineItems) ==
  [ orderNumber |-> Field(orderNode, "name"),
    orderDate |-> formatDate(Field(orderNode, "processedAt"), offset),
    customerName |-> CustomerName(orderNode, Field(customerNode, "firstName"),
                                  Field(customerNode, "lastName")),
    status |-> [ financial |-> Field(orderNode, "displayFinancialStatus"),
                 fulfillment |-> Field(orderNode, "displayFulfillmentStatus") ],
    pricing |-> [k \in DOMAIN PricingFields |-> formatMoney(Field(orderNode, PricingFields[k]))],
    items |-> lineItems,
    itemsSummary |-> ItemsSummary(lineItems),
    shippingInfo |->
      ShippingInfo(\E i \in 1..Len(lineItems) : lineItems[i].itemCategory = "PHYSICAL",
                   ShippingAddress(orderNode),
                   expectedShipDate,
                   formatDate(Field(latestFulfillment, "createdAt"), offset),
                   FirstTracking(latestFulfillment)) ]

LineItemsOf(orderNode, fulfilledLineItemIds) ==
  [i \in 1..Len(orderNode.lineItems.items) |->
     FormatLineItem(orderNode.lineItems.items[i], fulfilledLineItemIds)]

formatOrderForAI(orderNode, customerNode, offset) ==
  IF FormatRaises(orderNode, customerNode) THEN Raised
  ELSE Returned(FormattedOrder(orderNode, customerNode, offset,
                               parseShippingDateFromTags(Field(orderNode, "tags"), offset),
                               LatestFulfillment(orderNode),
                               LineItemsOf(orderNode, FulfilledLineItemIds(orderNode))))

-----------------------------------------------------------------------------
(* Bounds of the order records *)

MaxLineItems == 2
MaxFulfillments == 2

Chars_USD(amountChars) == MoneySetOf(Money(JsString(amountChars), "USD"))

LineItemIds == <<"gid://LineItem/1", "gid://LineItem/2", "gid://LineItem/3",
                 "gid://LineItem/4">>
LineItemTitles == <<"Retro Jacket", "Logo Patch", "Gift Card", "Hemming">>

\* The i-th line item of an order.
LineItem(i, requiresShipping, productType) ==
  [ id |-> LineItemIds[i],
    title |-> Text(LineItemTitles[i]),
    quantity |-> i,
    requiresShipping |-> requiresShipping,
    variant |-> [title |-> Text("Large"), product |-> [productType |-> productType]],
    originalUnitPriceSet |-> Chars_USD(<<"1", "2", ".", "5", "0">>),
    discountedTotalSet |-> Chars_USD(<<"1", "0", ".", "0", "0">>),
    discountAllocations |-> JsArray(<< [allocatedAmountSet |-> Chars_USD(<<"2", ".", "5", "0">>)] >>) ]

Fulfillment(createdAt, tracking, covered) ==
  [ createdAt |-> JsString(createdAt),
    displayStatus |-> Text("IN_TRANSIT"),
    trackingInfo |-> JsArray(tracking),
    fulfillmentLineItems |-> JsArray(covered) ]

\* Sequences over S of length at most n.
SeqsUpTo(S, n) == UNION {[1..k -> S] : k \in 0..n}

\* Creation timestamps of fulfillments: the two dates of the specification's
\* example, and with them a time late in a UTC day.
ExampleTimes == { IsoDateChars(2024, 1, 1), IsoDateChars(2024, 3, 1) }

FulfillmentTimes ==
  ExampleTimes \cup { IsoDateChars(2024, 6, 10) \o <<"T">> \o IsoTimeChars(22, 30, 0) \o <<"Z">> }

\* The tracking entry of the i-th fulfillment of a list.
TrackingEntry(i) ==
  [ company |-> Text("UPS"), number |-> Text("1Z99" \o ToString(i)),
    url |-> Text("https://ups.example/1Z99" \o ToString(i)) ]

\* What a fulfillment may cover: nothing, either of the first two line items, both.
CoveredLists ==
  { <<>>, <<LineItemIds[1]>>, <<LineItemIds[2]>>, <<LineItemIds[1], LineItemIds[2]>> }

W3DD(marker, rest) == marker \o <<":">> \o rest

\* Tag lists: none, no marker, the marker with the date of the specification's
\* scenario (lower and upper case, padded), with no date, with no parseable date,
\* with a second colon after the date, and two marked tags.
TagLists ==
  { JsArray(<<>>),
    JsArray(<< <<"v", "i", "p">> >>),
    JsArray(<< W3DD(<<"w", "3", "d", "d">>, IsoDateChars(2024, 6, 15)) >>),
    JsArray(<< <<"v", "i", "p">>, W3DD(<<"W", "3", "D", "D">>, <<" ">> \o IsoDateChars(2024, 6, 15)) >>),
    JsArray(<< W3DD(<<"w", "3", "d", "d">>, <<>>) >>),
    JsArray(<< W3DD(<<"w", "3", "d", "d">>, <<"s", "o", "o", "n">>) >>),
    JsArray(<< W3DD(<<"w", "3", "d", "d">>, IsoDateChars(2024, 6, 15) \o <<":", "a", "m">>) >>),
    JsArray(<< W3DD(<<"W", "3", "d", "d">>, IsoDateChars(2024, 7, 1)),
               W3DD(<<"w", "3", "d", "d">>, IsoDateChars(2024, 6, 15)) >>) }

\* Offsets of zones without daylight saving: America/Phoenix, UTC, Asia/Tokyo.
TimeZoneOffsets == {0 - 7 * 3600, 0, 9 * 3600}

NameValues(name) == {JsNull, Text(""), Text(name)}

CustomerNodes ==
  {JsNull} \cup {[firstName |-> f, lastName |-> l] :
                   f \in NameValues("Ann"), l \in NameValues("Lee")}

EmbeddedCustomers ==
  {JsNull} \cup {[firstName |-> f, lastName |-> l] :
                   f \in NameValues("Bob"), l \in NameValues("Ray")}

Order(tags, embedded, lineItems, fulfillments) ==
  [ name |-> Text("#1024"),
    processedAt |-> JsString(IsoDateChars(2024, 5, 20) \o <<"T">> \o IsoTimeChars(12, 0, 0) \o <<"Z">>),
    displayFinancialStatus |-> Text("PAID"),
    displayFulfillmentStatus |-> Text("UNFULFILLED"),
    tags |-> tags,
    customer |-> embedded,
    subtotalPriceSet |-> Chars_USD(<<"2", "5", ".", "0", "0">>),
    totalTaxSet |-> Chars_USD(<<"0", ".", "0", "0">>),
    totalShippingPriceSet |-> Chars_USD(<<"0", ".", "0", "0">>),
    totalPriceSet |-> Chars_USD(<<"2", "5", ".", "0", "0">>),
    totalDiscountsSet |-> Chars_USD(<<"5", ".", "0", "0">>),
    shippingAddress |-> [ address1 |-> Text("1 Main St"), address2 |-> JsNull,
                          city |-> Text("Austin"), provinceCode |-> Text("TX"),
                          zip |-> Text("78701") ],
    lineItems |-> JsArray(lineItems),
    fulfillments |-> JsArray(fulfillments) ]

DefaultCustomer == [firstName |-> Text("Bob"), lastName |-> Text("Ray")]

\* Line-item lists: the i-th item is the i-th of the catalogue, flagged or not.
LineItemLists ==
  { [i \in 1..Len(flags) |-> LineItem(i, flags[i], Text("Apparel"))] :
      flags \in SeqsUpTo(BOOLEAN, MaxLineItems) }

\* Orders that vary the line items and what the fulfillments cover.
CoverageOrders ==
  { Order(JsArray(<<>>), DefaultCustomer, lis,
          [i \in 1..Len(fs) |-> Fulfillment(fs[i][1], <<>>, fs[i][2])]) :
      lis \in LineItemLists,
      fs \in SeqsUpTo(ExampleTimes \X CoveredLists, MaxFulfillments) }

\* Orders that vary the tags, the fulfillments' times and tracking, and whether the
\* one line item ships.
ShippingOrders ==
  { Order(tags, DefaultCustomer, <<LineItem(1, ships, Text("Apparel"))>>,
          [i \in 1..Len(fs) |->
             Fulfillment(fs[i][1], IF fs[i][2] THEN <<TrackingEntry(i)>> ELSE <<>>, <<>>)]) :
      tags \in TagLists, ships \in BOOLEAN,
      fs \in SeqsUpTo(FulfillmentTimes \X BOOLEAN, MaxFulfillments) }

\* Orders that vary the embedded customer.
NameOrders ==
  { Order(JsArray(<<>>), c, <<LineItem(1, TRUE, Text("Apparel"))>>, <<>>) :
      c \in EmbeddedCustomers }

\* An order with every optional structure present: a date tag, an address, an
\* embedded customer, one line item and one fulfillment that covers and tracks it.
FullOrder(ships) ==
  Order(JsArray(<< W3DD(<<"w", "3", "d", "d">>, IsoDateChars(2024, 6, 15)) >>), DefaultCustomer,
        <<LineItem(1, ships, Text("Apparel"))>>,
        <<Fulfillment(IsoDateChars(2024, 3, 1), <<TrackingEntry(1)>>, <<LineItemIds[1]>>)>>)

WithLineItem(o, lineItem) == [o EXCEPT !.lineItems = JsArray(<<lineItem>>)]
WithFulfillment(o, fulfillment) == [o EXCEPT !.fulfillments = JsArray(<<fulfillment>>)]

\* The full order with one optional structure absent or empty.
SparseVariants(o) ==
  { o,
    [o EXCEPT !.tags = JsNull],
    [o EXCEPT !.shippingAddress = JsNull],
    [o EXCEPT !.customer = JsNull],
    [o EXCEPT !.fulfillments = JsNull],
    [o EXCEPT !.fulfillments = JsArray(<<>>)],
    WithFulfillment(o, [o.fulfillments.items[1] EXCEPT !.trackingInfo = JsArray(<<>>)]),
    WithFulfillment(o, [o.fulfillments.items[1] EXCEPT !.trackingInfo = JsNull]),
    WithFulfillment(o, [o.fulfillments.items[1] EXCEPT !.fulfillmentLineItems = JsNull]),
    WithLineItem(o, [o.lineItems.items[1] EXCEPT !.variant = JsNull]),
    WithLineItem(o, [o.lineItems.items[1] EXCEPT !.discountAllocations = JsArray(<<>>)]),
    WithLineItem(o, [o.lineItems.items[1] EXCEPT !.discountAllocations = JsNull]) }

SparseOrders == UNION { SparseVariants(FullOrder(ships)) : ships \in BOOLEAN }

\* A separately supplied customer: none, one with both names, one with a first name only.
SparseCustomers == {JsNull, [firstName |-> Text("Ann"), lastName |-> Text("Lee")],
                    [firstName |-> Text("Ann"), lastName |-> JsNull]}

\* Product types of a line item's variant: outside the allow-list, each entry of
\* it, an entry in another case, empty, absent.
ProductTypes ==
  { Text("Apparel"), Text("Alterations"), Text("Embroidered Patches"), Text("alterations"),
    Text(""), JsNull }

\* Line items that vary the shipping flag and the product type, and with them the
\* items with no product and with no variant.
CategoryItems ==
  UNION { { LineItem(1, ships, productType) : productType \in ProductTypes }
          \cup { [LineItem(1, ships, JsNull) EXCEPT !.variant.product = JsNull],
                 [LineItem(1, ships, JsNull) EXCEPT !.variant = JsNull] } :
          ships \in BOOLEAN }

\* Orders that vary the category of the first line item, alone or followed by an
\* item that does not ship.
CategoryOrders ==
  { Order(JsArray(<<>>), DefaultCustomer, <<item>> \o rest, <<>>) :
      item \in CategoryItems, rest \in {<<>>, <<LineItem(2, FALSE, Text("Apparel"))>>} }

MaxAllocations == 2

\* Amounts of a discount allocation, in cents precision.
AllocationAmounts == { <<"0", ".", "0", "0">>, <<"2", ".", "5", "0">>, <<"1", ".", "2", "5">> }

\* Orders that vary the discount allocations of the one line item and the
\* currency of its unit price; the allocations are in USD.
DiscountOrders ==
  { Order(JsArray(<<>>), DefaultCustomer,
          << [LineItem(1, TRUE, Text("Apparel")) EXCEPT
                !.originalUnitPriceSet.shopMoney.currencyCode = currency,
                !.discountAllocations =
                   JsArray([i \in 1..Len(amounts) |-> [allocatedAmountSet |-> Chars_USD(amounts[i])]])] >>,
          <<>>) :
      currency \in {"USD", "CAD"}, amounts \in SeqsUpTo(AllocationAmounts, MaxAllocations) }

-----------------------------------------------------------------------------
(* Specification of the order formatter: an order record arrives, alone or  *)
(* with its customer, in a process of some time zone, and is formatted.     *)

InitFormat ==
  /\ \/ order \in CoverageOrders /\ customer = JsNull /\ tz = 0
     \/ order \in ShippingOrders /\ customer = JsNull /\ tz \in TimeZoneOffsets
     \/ order \in NameOrders /\ customer \in CustomerNodes /\ tz = 0
     \/ order \in SparseOrders /\ customer \in SparseCustomers /\ tz = 0
     \/ order \in CategoryOrders /\ customer = JsNull /\ tz = 0
     \/ order \in DiscountOrders /\ customer = JsNull /\ tz = 0
  /\ latest = JsNull
  /\ shipDate = Pending
  /\ formatted = Pending
  /\ NoPhone
  /\ NoMoney
  /\ NoRoutes

Format ==
  /\ formatted = Pending
  /\ latest' = LatestFulfillment(order)
  /\ shipDate' = parseShippingDateFromTags(Field(order, "tags"), tz)
  /\ formatted' = formatOrderForAI(order, customer, tz)
  /\ UNCHANGED <<order, customer, tz, phoneVars, moneyVars, routeVars>>

NextFormat == Format

SpecFormat == InitFormat /\ [][NextFormat]_vars

-----------------------------------------------------------------------------
(* Strings in responses *)

\* The characters of a string, as one string.
CharsToStr(chars) == JoinStr(chars, "")

\* `${v}` in a template literal
ToStr(v) ==
  CASE v.t = "string" -> CharsToStr(v.s)
    [] v.t = "text" -> v.str
    [] v.t = "number" -> ToString(v.m)
    [] v.t = "null" -> "undefined"
    [] OTHER -> "[object Object]"

\* s.replace(c, ''): the first occurrence of the character c removed
RemoveFirstChar(s, c) ==
  IF IndicesOf(s, c) = {} THEN s
  ELSE LET at == CHOOSE i \in IndicesOf(s, c) : \A j \in IndicesOf(s, c) : i <= j
       IN SubSeq(s, 1, at - 1) \o SubSeq(s, at + 1, Len(s))

-----------------------------------------------------------------------------
(* Route handlers.  A handler runs from the request to its first await      *)
(* (Start): it answers at once or calls fetchShopifyData; when the call     *)
(* resolves or rejects it runs to its end (Resolved, Rejected).  Of a       *)
(* GraphQL connection only the array of its nodes is kept.                  *)

Json(status, body) == [status |-> status, body |-> body, logged |-> JsNull]
JsonLogged(status, body, logged) == [status |-> status, body |-> body, logged |-> logged]
Await(variables) == [await |-> TRUE, variables |-> variables]
Answer(response) == [await |-> FALSE, response |-> response]

\* data?.<connection>?.edges?.[0]?.node
FirstNode(data, connection) ==
  LET c == Field(data, connection)
  IN IF IsArray(c) /\ Len(c.items) > 0 THEN c.items[1] ELSE JsNull

GenericError == Text("Internal error fetching order details.")

\* res.json({success: true, order: ...}), or the catch block when the formatter threw
FormatterResponse(result) ==
  IF result.raised
  THEN JsonLogged(500, [success |-> FALSE, error |-> GenericError], Text(result.error))
  ELSE Json(200, [success |-> TRUE, order |-> result.value])

\* POST /getOrderByPhone
getOrderByPhone_Start(body) ==
  LET reqPhone == Field(body, "phone") IN
  IF ~Truthy(reqPhone)
  THEN Answer(Json(400, [success |-> FALSE, error |-> Text("Phone number is required.")]))
  ELSE LET normalizedPhone == normalizePhoneNumber(reqPhone) IN
       IF ~Truthy(normalizedPhone)
       THEN Answer(Json(400, [success |-> FALSE,
                              error |-> Text("Invalid phone number format: " \o ToStr(reqPhone))]))
       ELSE Await([phoneQuery |-> Text("phone:" \o ToStr(normalizedPhone))])

\* The handler with the not-found message of an earlier version of the route.
getOrderByPhone_Resolved_EarlierMessage(data, offset) ==
  LET customerNode == FirstNode(data, "customers")
      latestOrder == FirstNode(customerNode, "orders")
  IN IF Truthy(customerNode) /\ Truthy(latestOrder)
     THEN FormatterResponse(formatOrderForAI(latestOrder, customerNode, offset))
     ELSE Json(200, [success |-> FALSE,
                     message |-> Text("I couldn't find any recent orders associated with that phone number.")])

getOrderByPhone_Resolved(data, offset) ==
  LET customerNode == FirstNode(data, "customers")
      latestOrder == FirstNode(customerNode, "orders")
  IN IF Truthy(customerNode) /\ Truthy(latestOrder)
     THEN FormatterResponse(formatOrderForAI(latestOrder, customerNode, offset))
     ELSE Json(200, [success |-> FALSE,
                     message |-> Text("I couldn't find any recent orders with that phone number.")])

getOrderByPhone_Rejected(error) ==
  JsonLogged(500, [success |-> FALSE, error |-> GenericError], error)

\* POST /getOrderById.  A truthy orderNumber that is no string has no replace
\* method: the handler throws before its try block (Uncaught) and its promise
\* rejects.  What becomes of the request is the framework's doing: Express 4
\* ignores the promise and nothing answers the request (Unanswered), Express 5
\* hands the error to its default error handler, which answers 500 with a page.
Uncaught == [status |-> 0, body |-> Text("TypeError"), logged |-> JsNull]
Unanswered == [status |-> 0, body |-> JsNull, logged |-> JsNull]
FrameworkError == [status |-> 500, body |-> Text("<pre>Internal Server Error</pre>"), logged |-> JsNull]

\* The ways a handler's step can end, given what the framework does with a throw.
Outcomes(step) ==
  IF ~step.await /\ step.response = Uncaught
  THEN {Answer(Unanswered), Answer(FrameworkError)}
  ELSE {step}

CleanOrderNumber(orderNumber) == trim(RemoveFirstChar(orderNumber.s, "#"))

getOrderById_Start(body) ==
  LET orderNumber == Field(body, "orderNumber") IN
  IF ~Truthy(orderNumber)
  THEN Answer(Json(400, [success |-> FALSE, error |-> Text("Order number is required.")]))
  ELSE IF ~IsString(orderNumber) THEN Answer(Uncaught)
  ELSE Await([nameQuery |-> Text("name:" \o CharsToStr(CleanOrderNumber(orderNumber)))])

getOrderById_Resolved(body, data, offset) ==
  LET orderFound == FirstNode(data, "orders") IN
  IF Truthy(orderFound)
  THEN FormatterResponse(formatOrderForAI(orderFound, JsNull, offset))
  ELSE Json(200, [success |-> FALSE,
                  message |-> Text("I couldn't find an order with the number "
                                   \o CharsToStr(CleanOrderNumber(body.orderNumber)))])

getOrderById_Rejected(error) ==
  JsonLogged(500, [success |-> FALSE, error |-> GenericError], error)

-----------------------------------------------------------------------------
(* The version of POST /getOrderByPhone that queries the orders by phone    *)
(* and verifies the phone of the order's customer, with the one-argument    *)
(* order formatter of that version.                                         *)

\* The accesses of that formatter that throw a TypeError.
FormatByOrdersRaises(orderNode) ==
  \/ ~IsArray(Field(orderNode, "lineItems"))                       \* lineItems.edges.map
  \/ ~Truthy(Field(orderNode, "customer"))                         \* customer.firstName
  \/ ~Truthy(Field(Field(orderNode, "totalPriceSet"), "shopMoney")) \* shopMoney.amount

\* let itemsSummary = 'your items'; if ... else if ...
ItemsSummaryByOrders(lineItems) ==
  IF Len(lineItems) = 1
  THEN Text(ToString(lineItems[1].quantity) \o " of the " \o ToStr(lineItems[1].title))
  ELSE IF Len(lineItems) > 1
  THEN Text(ToString(Len(lineItems)) \o " items, including a " \o ToStr(lineItems[1].title))
  ELSE Text("your items")

\* lineItems.reduce((sum, item) => sum + item.quantity, 0)
RECURSIVE TotalItems(_)
TotalItems(lineItems) ==
  IF lineItems = <<>> THEN 0
  ELSE TotalItems(SubSeq(lineItems, 1, Len(lineItems) - 1)) + lineItems[Len(lineItems)].quantity

\* v || fallback
OrText(v, fallback) == IF Truthy(v) THEN v ELSE Text(fallback)

\* The returned object, from the values the function computed before its return.
FormattedByOrders(orderNode, latestFulfillment, tracking, fullAddress, lineItems) ==
  [ orderNumber |-> Field(orderNode, "name"),
    customerName |-> OrText(FilterBooleanJoin(<< Field(orderNode.customer, "firstName"),
                                                 Field(orderNode.customer, "lastName") >>, " "),
                            "Valued Customer"),
    totalPrice |-> Text(ToStr(orderNode.totalPriceSet.shopMoney.amount) \o " "
                        \o orderNode.totalPriceSet.shopMoney.currencyCode),
    shippingStatus |-> OrText(Field(latestFulfillment, "displayStatus"), "UNFULFILLED"),
    shippingDate |-> OrNull(Field(latestFulfillment, "createdAt")),
    shippingAddress |-> IF fullAddress = JsNull THEN Text("the address on file") ELSE fullAddress,
    carrier |-> OrText(Field(tracking, "company"), "the shipping carrier"),
    itemsSummary |-> ItemsSummaryByOrders(lineItems),
    totalItems |-> TotalItems(lineItems),
    lineItems |-> [i \in 1..Len(lineItems) |->
                     [title |-> lineItems[i].title, quantity |-> lineItems[i].quantity]],
    trackingNumber |-> OrNull(Field(tracking, "number")),
    trackingUrl |-> OrNull(Field(tracking, "url")) ]

formatOrderForAI_ByOrders(orderNode) ==
  IF FormatByOrdersRaises(orderNode) THEN Raised
  ELSE Returned(FormattedByOrders(orderNode, LatestFulfillment(orderNode),
                                  FirstTracking(LatestFulfillment(orderNode)),
                                  ShippingAddress(orderNode), orderNode.lineItems.items))

NotFoundByOrders(normalizedPhone) ==
  JsonLogged(200, [success |-> FALSE,
                   message |-> Text("I couldn't find any recent orders associated with that phone number.")],
             Text("No matching order found for phone " \o ToStr(normalizedPhone)
                  \o ". Shopify may have returned a non-matching result."))

GenericErrorByOrders == Text("An internal error occurred while fetching order details.")

\* res.json({success: true, order: ...}), or the catch block when the formatter threw
FormatterResponseByOrders(result) ==
  IF result.raised
  THEN JsonLogged(500, [success |-> FALSE, error |-> GenericErrorByOrders], Text(result.error))
  ELSE Json(200, [success |-> TRUE, order |-> result.value])

getOrderByPhone_ByOrders_Start(body) ==
  LET reqPhone == Field(body, "phone") IN
  IF ~Truthy(reqPhone)
  THEN Answer(Json(400, [success |-> FALSE, error |-> Text("Phone number is required.")]))
  ELSE LET normalizedPhone == normalizePhoneNumber(reqPhone) IN
       IF ~Truthy(normalizedPhone)
       THEN Answer(Json(400, [success |-> FALSE,
                              error |-> Text("Invalid phone number format provided: "
                                             \o ToStr(reqPhone))]))
       ELSE Await([queryString |-> Text("phone:" \o ToStr(normalizedPhone))])

\* The handler as it was before the phone of the returned order was verified.
getOrderByPhone_ByOrders_Resolved_Unverified(normalizedPhone, orderFound) ==
  IF Truthy(orderFound)
  THEN FormatterResponseByOrders(formatOrderForAI_ByOrders(orderFound))
  ELSE NotFoundByOrders(normalizedPhone)

\* The handler after its await, with the normalizedPhone of its closure and the
\* first order of the result.
getOrderByPhone_ByOrders_Resolved(normalizedPhone, orderFound) ==
  LET customerPhone == Field(Field(orderFound, "customer"), "phone")
      returnedPhone == IF Truthy(customerPhone) THEN normalizePhoneNumber(customerPhone)
                       ELSE JsNull
  IN IF Truthy(orderFound) /\ returnedPhone = normalizedPhone
     THEN FormatterResponseByOrders(formatOrderForAI_ByOrders(orderFound))
     ELSE NotFoundByOrders(normalizedPhone)

getOrderByPhone_ByOrders_Rejected(error) ==
  JsonLogged(500, [success |-> FALSE, error |-> GenericErrorByOrders], error)

-----------------------------------------------------------------------------
(* The earlier generic lookup route, POST /get-order-details, with its own  *)
(* phone normalizer and date helpers.                                       *)

\* date.toLocaleDateString('en-US', {month: 'long', day: 'numeric'})
formatDateHuman(dateString, offset) ==
  IF ~Truthy(dateString) THEN "not yet available"
  ELSE LET date == NewDate(dateString) IN
       IF date = InvalidDate THEN "Invalid Date"
       ELSE LET c == CivilFromDays((date.secs + offset) \div 86400)
            IN MonthName(c.month) \o " " \o ToString(c.day)

WeekdayName(days) ==
  LET w == (days + 4) % 7 IN
  CASE w = 0 -> "Sunday" [] w = 1 -> "Monday" [] w = 2 -> "Tuesday"
    [] w = 3 -> "Wednesday" [] w = 4 -> "Thursday" [] w = 5 -> "Friday"
    [] w = 6 -> "Saturday"

\* The shipping date's local day plus 7, as weekday, month and day.
estimateArrivalDate(shippingDateString, offset) ==
  IF ~Truthy(shippingDateString) THEN "not yet available"
  ELSE LET shippingDate == NewDate(shippingDateString) IN
       IF shippingDate = InvalidDate THEN "Invalid Date"
       ELSE LET days == (shippingDate.secs + offset) \div 86400 + 7
                c == CivilFromDays(days)
            IN WeekdayName(days) \o ", " \o MonthName(c.month) \o " " \o ToString(c.day)

\* order.id.split('/').pop()
LastPathPiece(id) == SplitPiece(id.s, "/", Cardinality(IndicesOf(id.s, "/")))

OrDefault(v, default) == IF Truthy(v) THEN v ELSE default

\* The formattedOrder of /get-order-details; raised when a property of an absent
\* structure is read.
formatOrderLegacy(orderFound, offset) ==
  IF ~IsArray(Field(orderFound, "lineItems")) \/ ~IsString(Field(orderFound, "id")) THEN Raised
  ELSE
  LET nodes == orderFound.lineItems.items
      lineItems == [i \in 1..Len(nodes) |-> [title |-> nodes[i].title, quantity |-> nodes[i].quantity]]
      lineItemsSummary ==
        IF Len(lineItems) = 1
        THEN ToString(lineItems[1].quantity) \o " " \o lineItems[1].title.str
        ELSE IF Len(lineItems) > 1
             THEN ToString(Len(lineItems)) \o " items, including the " \o lineItems[1].title.str
             ELSE "your order"
      fs == Field(orderFound, "fulfillments")
      hasFulfillment == IsArray(fs) /\ Len(fs.items) > 0
      latestFulfillment == IF hasFulfillment THEN fs.items[Len(fs.items)] ELSE JsNull
      shippingDate == Field(latestFulfillment, "createdAt")
      trackingInfo == Field(latestFulfillment, "trackingInfo")
      hasTracking == IsArray(trackingInfo) /\ Len(trackingInfo.items) > 0
      primaryTracking == IF hasTracking THEN trackingInfo.items[1] ELSE JsNull
  IN Returned(
       [ orderId |-> LastPathPiece(orderFound.id),
         orderName |-> Field(orderFound, "name"),
         customerEmail |-> OrDefault(Field(orderFound, "email"), Text("N/A")),
         customerPhone |-> OrDefault(Field(orderFound, "phone"), Text("N/A")),
         lineItemsSummary |-> Text(lineItemsSummary),
         fulfillmentStatus |-> IF hasFulfillment THEN Field(latestFulfillment, "status")
                               ELSE Text("UNFULFILLED"),
         hasTracking |-> hasTracking,
         formattedShippingDate |-> Text(IF Truthy(shippingDate)
                                        THEN formatDateHuman(shippingDate, offset)
                                        ELSE "not yet available"),
         formattedArrivalDate |-> Text(IF Truthy(shippingDate)
                                       THEN estimateArrivalDate(shippingDate, offset)
                                       ELSE "not yet available"),
         trackingCompany |-> IF hasTracking
                             THEN OrDefault(Field(primaryTracking, "company"), Text("the carrier"))
                             ELSE Text("N/A"),
         trackingNumber |-> Field(primaryTracking, "number"),
         trackingUrl |-> Field(primaryTracking, "url"),
         rawLineItems |-> lineItems ])

\* res.json({success: true, order: formattedOrder}), or the catch block when building
\* formattedOrder threw
LegacyResponse(result) ==
  IF result.raised
  THEN JsonLogged(500, [success |-> FALSE,
                        error |-> Text("Failed to fetch order details from Shopify."),
                        details |-> Text(result.error)], Text(result.error))
  ELSE Json(200, [success |-> TRUE, order |-> result.value])

\* `phone:${normalizePhoneNumber(value)}`
LegacyPhoneQuery(normalizedPhone) ==
  IF normalizedPhone.raised THEN Answer(Uncaught)
  ELSE Await([queryString |-> Text("phone:" \o ToStr(normalizedPhone.value))])

LegacyQueryTypes == {"name", "phone", "email", "id"}

\* POST /get-order-details
getOrderDetails_Start(body) ==
  LET queryType == Field(body, "queryType")
      value == Field(body, "value")
  IN IF ~Truthy(queryType) \/ ~Truthy(value)
     THEN Answer(Json(400, [success |-> FALSE,
            error |-> Text("Missing 'queryType' or 'value' in request body. Please provide both."),
            received_body |-> body]))
     ELSE IF queryType.str \notin LegacyQueryTypes
     THEN Answer(Json(400, [success |-> FALSE,
            error |-> Text("Invalid queryType: " \o queryType.str
                           \o ". Supported types are: name (order number), phone, email, id."),
            received_queryType |-> queryType]))
     ELSE IF queryType.str = "name"
     THEN IF ~IsString(value) THEN Answer(Uncaught)
          ELSE Await([queryString |-> Text("name:" \o CharsToStr(RemoveFirstChar(value.s, "#")))])
     ELSE IF queryType.str = "phone"
     THEN LegacyPhoneQuery(normalizePhoneNumberLegacy(value))
     ELSE Await([queryString |-> Text(queryType.str \o ":" \o ToStr(value))])

getOrderDetails_Resolved(body, data, offset) ==
  LET orderFound == FirstNode(data, "orders") IN
  IF Truthy(orderFound)
  THEN LegacyResponse(formatOrderLegacy(orderFound, offset))
  ELSE Json(200, [success |-> FALSE,
                  message |-> Text("No order found for " \o body.queryType.str \o ": "
                                   \o ToStr(body.value))])

getOrderDetails_Rejected(error) ==
  JsonLogged(500, [success |-> FALSE,
                   error |-> Text("Failed to fetch order details from Shopify."),
                   details |-> error], error)

-----------------------------------------------------------------------------
(* The generic customer lookup route, POST /get-customer-details *)

CustomerQueryTypes == {"email", "phone", "firstName"}

getCustomerDetails_Start(body) ==
  LET queryType == Field(body, "queryType")
      value == Field(body, "value")
  IN IF ~Truthy(queryType) \/ ~Truthy(value)
     THEN Answer(Json(400, [success |-> FALSE,
            error |-> Text("Missing 'queryType' or 'value' in request body. Please provide both."),
            received_body |-> body]))
     ELSE IF queryType.str \notin CustomerQueryTypes
     THEN Answer(Json(400, [success |-> FALSE,
            error |-> Text("Invalid queryType: " \o queryType.str
                           \o ". Supported types are: email, phone, firstName."),
            received_queryType |-> queryType]))
     ELSE IF queryType.str = "email"
     THEN Await([queryString |-> Text("email:" \o ToStr(value))])
     ELSE IF queryType.str = "phone"
     THEN LegacyPhoneQuery(normalizePhoneNumberLegacy(value))
     ELSE Await([queryString |-> Text("first_name:" \o ToStr(value))])

\* The formattedCustomer; raised when customer.id is absent.
formatCustomer(customerFound) ==
  IF ~IsString(Field(customerFound, "id")) THEN Raised
  ELSE Returned([ customerId |-> LastPathPiece(customerFound.id),
                  firstName |-> Field(customerFound, "firstName"),
                  lastName |-> Field(customerFound, "lastName"),
                  email |-> Field(customerFound, "email"),
                  phone |-> Field(customerFound, "phone") ])

\* res.json({success: true, customer: formattedCustomer}), or the catch block
CustomerResponse(result) ==
  IF result.raised
  THEN JsonLogged(500, [success |-> FALSE,
                        error |-> Text("Failed to fetch customer details from Shopify."),
                        details |-> Text(result.error)], Text(result.error))
  ELSE Json(200, [success |-> TRUE, customer |-> result.value])

getCustomerDetails_Resolved(body, data, offset) ==
  LET customerFound == FirstNode(data, "customers") IN
  IF Truthy(customerFound)
  THEN CustomerResponse(formatCustomer(customerFound))
  ELSE Json(200, [success |-> FALSE,
                  message |-> Text("No customer found for " \o body.queryType.str \o ": "
                                   \o ToStr(body.value))])

getCustomerDetails_Rejected(error) ==
  JsonLogged(500, [success |-> FALSE,
                   error |-> Text("Failed to fetch customer details from Shopify."),
                   details |-> error], error)

-----------------------------------------------------------------------------
(* Requests and upstream results of the route specification *)

MaxRequests == 2

\* The routes; the orders-by-phone version of /getOrderByPhone is told apart from
\* the customer-first one by a suffix.
ByOrders == "/getOrderByPhone:orders"

Routes ==
  {"/getOrderByPhone", ByOrders, "/getOrderById", "/get-order-details", "/get-customer-details"}

ShortPhone == JsString(<<"1", "2", "3", "4", "5">>)
OrderNumber == JsString(<<"#", "1", "0", "2", "4">>)
MalformedEmail == JsString(<<"a", "n", "n", "@", "x">>)
WellFormedEmail == JsString(<<"a", "n", "n", "@", "x", ".", "i", "o">>)

\* Request bodies: the field absent, empty, and present with sample values.
Bodies(route) ==
  CASE route = "/getOrderByPhone" ->
         { [sessionId |-> Text("s1")] }
         \cup { [phone |-> p] : p \in {JsString(<<>>), ShortPhone, JsString(ScenarioPhone)} }
    [] route = ByOrders ->
         { [sessionId |-> Text("s1")], [phone |-> ShortPhone], [phone |-> JsString(ScenarioPhone)] }
    [] route = "/getOrderById" ->
         { [sessionId |-> Text("s1")], [orderNumber |-> JsNumber(1024)] }
         \cup { [orderNumber |-> n] : n \in {OrderNumber, JsString(<<"1", "0", "#", "2", "4", " ">>)} }
    [] route = "/get-order-details" ->
         { [value |-> OrderNumber], [queryType |-> Text("phone")],
           [queryType |-> Text("fax"), value |-> ShortPhone],
           [queryType |-> Text("name"), value |-> OrderNumber],
           [queryType |-> Text("phone"), value |-> ShortPhone],
           [queryType |-> Text("email"), value |-> MalformedEmail] }
    [] route = "/get-customer-details" ->
         { [queryType |-> Text("email")],
           [queryType |-> Text("lastName"), value |-> Text("Lee")],
           [queryType |-> Text("email"), value |-> MalformedEmail],
           [queryType |-> Text("email"), value |-> WellFormedEmail] }

SampleOrder ==
  Order(JsArray(<<>>), JsNull,
        <<LineItem(1, TRUE, Text("Apparel")), LineItem(2, FALSE, Text("Service"))>>,
        <<Fulfillment(IsoDateChars(2024, 3, 1), <<TrackingEntry(1)>>, <<LineItemIds[1]>>)>>)

EmptyOrder == Order(JsArray(<<>>), JsNull, <<>>, <<>>)

CustomerWith(orders) ==
  [firstName |-> Text("Ann"), lastName |-> Text("Lee"), orders |-> JsArray(orders)]

LegacyOrder ==
  [ id |-> JsString(<<"g", "i", "d", ":", "/", "/", "O", "r", "d", "e", "r", "/", "7">>),
    name |-> Text("#1024"),
    email |-> Text("ann@example.com"),
    phone |-> JsNull,
    lineItems |-> JsArray(<< [title |-> Text("Retro Jacket"), quantity |-> 2] >>),
    fulfillments |-> JsArray(<< [ status |-> Text("SUCCESS"),
                                  createdAt |-> JsString(IsoDateChars(2024, 3, 1)),
                                  trackingInfo |-> JsArray(<<TrackingEntry(1)>>) ] >>) ]

LegacyCustomer ==
  [ id |-> JsString(<<"g", "i", "d", ":", "/", "/", "C", "u", "s", "t", "o", "m", "e", "r", "/", "9">>),
    firstName |-> Text("Ann"), lastName |-> Text("Lee"),
    email |-> Text("ann@x.io"), phone |-> JsNull ]

\* The sample order of a customer with this phone.
OrderOfPhone(customerPhone) ==
  [SampleOrder EXCEPT !.customer = [firstName |-> Text("Ann"), lastName |-> Text("Lee"),
                                    phone |-> customerPhone]]

\* Phones of the customer of the first order that an orders-by-phone query returns:
\* the scenario's phone as stored and as typed, another customer's, none.
ReturnedPhones ==
  { JsString(<<"+", "5", "5", "5", "1", "2", "3", "4", "5", "6", "7">>),
    JsString(<<"5", "5", "5", " ", "1", "2", "3", " ", "4", "5", "6", "7">>),
    JsString(<<"+", "5", "5", "5", "9", "9", "9", "0", "0", "0", "0">>),
    JsNull }

\* What the upstream query of a route can resolve to.
UpstreamData(route) ==
  CASE route = "/getOrderByPhone" ->
         { JsNull,
           [customers |-> JsArray(<<>>)],
           [customers |-> JsArray(<<CustomerWith(<<>>)>>)],
           [customers |-> JsArray(<<CustomerWith(<<SampleOrder>>)>>)],
           [customers |-> JsArray(<<CustomerWith(<<EmptyOrder>>)>>)] }
    [] route = ByOrders ->
         { JsNull, [orders |-> JsArray(<<>>)] }
         \cup { [orders |-> JsArray(<<OrderOfPhone(p)>>)] : p \in ReturnedPhones }
    [] route = "/getOrderById" ->
         { JsNull,
           [orders |-> JsArray(<<>>)],
           [orders |-> JsArray(<<SampleOrder>>)],
           [orders |-> JsArray(<<EmptyOrder>>)] }
    [] route = "/get-order-details" ->
         { [orders |-> JsArray(<<>>)],
           [orders |-> JsArray(<<LegacyOrder>>)],
           [orders |-> JsArray(<<[name |-> Text("#1024")]>>)] }
    [] route = "/get-customer-details" ->
         { [customers |-> JsArray(<<>>)],
           [customers |-> JsArray(<<LegacyCustomer>>)] }

\* The messages of the errors fetchShopifyData throws.
UpstreamErrors ==
  { Text("Shopify URL or Access Token is not defined in environment variables."),
    Text("Shopify API responded with status 401") }

Start(route, body) ==
  CASE route = "/getOrderByPhone" -> getOrderByPhone_Start(body)
    [] route = ByOrders -> getOrderByPhone_ByOrders_Start(body)
    [] route = "/getOrderById" -> getOrderById_Start(body)
    [] route = "/get-order-details" -> getOrderDetails_Start(body)
    [] route = "/get-customer-details" -> getCustomerDetails_Start(body)

Resolved(route, body, data, offset) ==
  CASE route = "/getOrderByPhone" -> getOrderByPhone_Resolved(data, offset)
    [] route = ByOrders ->
         getOrderByPhone_ByOrders_Resolved(normalizePhoneNumber(body.phone), FirstNode(data, "orders"))
    [] route = "/getOrderById" -> getOrderById_Resolved(body, data, offset)
    [] route = "/get-order-details" -> getOrderDetails_Resolved(body, data, offset)
    [] route = "/get-customer-details" -> getCustomerDetails_Resolved(body, data, offset)

Rejected(route, error) ==
  CASE route = "/getOrderByPhone" -> getOrderByPhone_Rejected(error)
    [] route = ByOrders -> getOrderByPhone_ByOrders_Rejected(error)
    [] route = "/getOrderById" -> getOrderById_Rejected(error)
    [] route = "/get-order-details" -> getOrderDetails_Rejected(error)
    [] route = "/get-customer-details" -> getCustomerDetails_Rejected(error)

RemoveAt(s, i) == SubSeq(s, 1, i - 1) \o SubSeq(s, i + 1, Len(s))

-----------------------------------------------------------------------------
(* Specification of the routes: requests arrive while earlier ones await    *)
(* the upstream; inflight holds the awaiting requests, completed the last   *)
(* request a handler finished with, the upstream call it made if any, and   *)
(* its response.                                                            *)

InitRoutes ==
  /\ inflight = <<>>
  /\ completed = JsNull
  /\ NoPhone
  /\ NoMoney
  /\ NoFormat

\* A request arrives and its handler runs to its first await or to its response.
\* calls counts the calls of fetchShopifyData the handler has made.
Proceed(route, body, step) ==
  IF step.await
  THEN /\ inflight' = Append(inflight, [route |-> route, body |-> body, calls |-> 1,
                                        variables |-> step.variables])
       /\ UNCHANGED completed
  ELSE /\ completed' = [route |-> route, body |-> body, calls |-> 0,
                        variables |-> JsNull, upstream |-> JsNull,
                        response |-> step.response]
       /\ UNCHANGED inflight

Receive(route, body) ==
  /\ Len(inflight) < MaxRequests
  /\ \E step \in Outcomes(Start(route, body)) : Proceed(route, body, step)
  /\ UNCHANGED <<phoneVars, moneyVars, formatVars>>

\* A dispatcher that resumes the oldest awaiting handler whichever call settles.
Resuming_Oldest(requests, i) == requests[1]

\* The handler that resumes when the i-th awaited call settles: the one that made
\* the call, with the request and the variables of its own closure.
Resuming(requests, i) == requests[i]

\* A catch block that makes the call a second time before it answers.
OnReject_RetryOnce(request, error) ==
  IF request.calls < 2 THEN [retry |-> TRUE]
  ELSE [retry |-> FALSE, response |-> Rejected(request.route, error)]

\* What the handler does when its call throws: its catch block answers.
OnReject(request, error) == [retry |-> FALSE, response |-> Rejected(request.route, error)]

\* The handler of request ends with response, after the i-th awaited call settled.
Finish(request, i, upstream, response) ==
  /\ completed' = [route |-> request.route, body |-> request.body, calls |-> request.calls,
                   variables |-> request.variables, upstream |-> upstream,
                   response |-> response]
  /\ inflight' = RemoveAt(inflight, i)

ResumeResolved(request, i, data) ==
  Finish(request, i, [resolved |-> TRUE, data |-> data, call |-> inflight[i].variables],
         Resolved(request.route, request.body, data, tz))

ResumeRejected(request, i, error, outcome) ==
  IF outcome.retry
  THEN /\ inflight' = [inflight EXCEPT ![i].calls = @ + 1]
       /\ UNCHANGED completed
  ELSE Finish(request, i, [resolved |-> FALSE, error |-> error, call |-> inflight[i].variables],
              outcome.response)

\* fetchShopifyData resolves for the i-th awaiting request.
UpstreamResolve(i, data) ==
  /\ i \in 1..Len(inflight)
  /\ data \in UpstreamData(inflight[i].route)
  /\ ResumeResolved(Resuming(inflight, i), i, data)
  /\ UNCHANGED <<phoneVars, moneyVars, formatVars>>

\* fetchShopifyData throws for the i-th awaiting request.
UpstreamReject(i, error) ==
  /\ i \in 1..Len(inflight)
  /\ ResumeRejected(Resuming(inflight, i), i, error, OnReject(Resuming(inflight, i), error))
  /\ UNCHANGED <<phoneVars, moneyVars, formatVars>>

NextRoutes ==
  \/ \E route \in Routes : \E body \in Bodies(route) : Receive(route, body)
  \/ \E i \in 1..MaxRequests : \E data \in UNION {UpstreamData(r) : r \in Routes} :
       UpstreamResolve(i, data)
  \/ \E i \in 1..MaxRequests : \E error \in UpstreamErrors : UpstreamReject(i, error)

SpecRoutes == InitRoutes /\ [][NextRoutes]_vars

-----------------------------------------------------------------------------
(* Properties of the phone normalizer *)

DigitCount(v) == Len(SelectSeq(v.s, LAMBDA c : c \in DigitChars))

\* C1: a phone string with fewer than 10 decimal digits, with or without a leading
\* '+', normalizes to the invalid result null, never to a guessed or padded number.
C1_ShortPhoneIsInvalid ==
  (normalized # Pending /\ phone.t = "string" /\ DigitCount(phone) < 10)
    => normalized = JsNull

\* A nine-digit string that starts with '+' was rejected.
C1_Witness ==
  /\ normalized = JsNull
  /\ phone.t = "string" /\ Len(phone.s) > 0 /\ phone.s[1] = "+"
  /\ DigitCount(phone) = 9

\* '+' followed by exactly the digits of the string, for a string of 10 digits or
\* more that does not start with '+'; the string itself when it does.
ExpectedNormalized(p) ==
  IF StartsWithChar(p.s, "+") THEN p ELSE JsString(<<"+">> \o StripNonDigits(p.s))

\* C11: a phone string with at least 10 digits is returned unchanged when it starts
\* with '+', and otherwise as '+' followed by exactly its digits, no country code
\* added, by normalizePhoneNumber and by the normalizer of the generic routes.
C11_TenDigitsNormalized ==
  (IsString(phone) /\ DigitCount(phone) >= 10) =>
    /\ normalized # Pending => normalized = ExpectedNormalized(phone)
    /\ normalizedLegacy # Pending => normalizedLegacy = Returned(ExpectedNormalized(phone))

\* C17: for a phone string that starts with '+', normalizing the result again gives
\* the same result, the invalid result included.
C17_IdempotentOnPlus ==
  (IsString(phone) /\ StartsWithChar(phone.s, "+") /\ renormalized # Pending)
    => renormalized = normalized

\* Both cases: a '+' string of 10 digits, and one the normalizer rejects.
C17_Witness ==
  /\ IsString(phone) /\ StartsWithChar(phone.s, "+")
  /\ renormalized # Pending
  /\ DigitCount(phone) >= 10
  /\ renormalized = phone

IsCanonical(v) ==
  /\ IsString(v)
  /\ StartsWithChar(v.s, "+")
  /\ \A i \in 2..Len(v.s) : v.s[i] \in DigitChars

\* C18: every result of normalizePhoneNumber other than the invalid one is a '+'
\* followed by decimal digits only.
C18_ResultIsCanonical ==
  (normalized # Pending /\ normalized # JsNull) => IsCanonical(normalized)

\* C19: normalizePhoneNumber, and the normalizer of the generic routes, return a
\* string or the invalid result for every argument and never throw.
C19_NormalizerIsTotal ==
  /\ normalized # Pending => (normalized = JsNull \/ IsString(normalized))
  /\ normalizedLegacy # Pending
       => /\ ~normalizedLegacy.raised
          /\ normalizedLegacy.value = JsNull \/ IsString(normalizedLegacy.value)

-----------------------------------------------------------------------------
(* Properties of the money formatter *)

AmountOf(ms) == Field(IF Has(ms, "shopMoney") THEN ms.shopMoney ELSE ms, "amount")

\* The amount is there and reads, as a whole, as a decimal number.
IsDecimalAmount(a) ==
  \/ a.t = "number"
  \/ a.t = "string" /\ a.s # <<>> /\ ToNumber(a) # JsNaN

AmountIsZero(a) == IsDecimalAmount(a) /\ ToNumber(a) = JsNumber(0)

AmountIsAbsent(a) == a = JsNull \/ a = JsString(<<>>)

\* C8: formatMoney returns null for an absent or numerically zero amount (such as
\* "0.00"), a non-null string for every non-zero amount, and never "$0.00".
C8_ZeroMoneyIsNull ==
  money # Pending =>
    LET a == AmountOf(moneySet) IN
    /\ (AmountIsAbsent(a) \/ AmountIsZero(a)) => money = JsNull
    /\ (IsDecimalAmount(a) /\ ~AmountIsZero(a)) => money # JsNull
    /\ money # Text("$0.00")

-----------------------------------------------------------------------------
(* Properties of the order formatter *)

Formatted == formatted # Pending /\ ~formatted.raised

InputLineItems == order.lineItems.items
InputFulfillments == IF IsArray(order.fulfillments) THEN order.fulfillments.items ELSE <<>>

\* C5: an order with zero line items is formatted without an exception, and its
\* itemsSummary is "No items found in this order.".
C5_EmptyOrderSummary ==
  (formatted # Pending /\ InputLineItems = <<>>)
    => /\ ~formatted.raised
       /\ formatted.value.itemsSummary = Text("No items found in this order.")

\* The line item's identifier is in the covered-items list of some fulfillment.
CoveredBySome(id) ==
  \E i \in 1..Len(InputFulfillments) :
    \E j \in 1..Len(InputFulfillments[i].fulfillmentLineItems.items) :
      InputFulfillments[i].fulfillmentLineItems.items[j] = id

\* C6: a line item of the formatted order is FULFILLED exactly when its identifier
\* is covered by at least one fulfillment of the order, and UNFULFILLED otherwise.
C6_FulfilledIffCovered ==
  Formatted =>
    /\ Len(formatted.value.items) = Len(InputLineItems)
    /\ \A i \in 1..Len(InputLineItems) :
         formatted.value.items[i].fulfillmentStatus =
           IF CoveredBySome(InputLineItems[i].id) THEN "FULFILLED" ELSE "UNFULFILLED"

\* Two fulfillments, the older one alone covering the second line item: that item
\* is FULFILLED and the first, covered by none, is UNFULFILLED.
C6_Witness ==
  /\ Formatted
  /\ Len(InputLineItems) = 2 /\ Len(InputFulfillments) = 2
  /\ latest # JsNull /\ latest.fulfillmentLineItems.items = <<>>
  /\ formatted.value.items[2].fulfillmentStatus = "FULFILLED"
  /\ formatted.value.items[1].fulfillmentStatus = "UNFULFILLED"

InstantOf(f) == NewDate(f.createdAt).secs

DistinctInstants(fs) ==
  \A i, j \in 1..Len(fs) : i # j => InstantOf(fs[i]) # InstantOf(fs[j])

\* C7: of a non-empty fulfillment list with pairwise distinct creation timestamps,
\* in whatever order it arrives, the latest fulfillment picked is the record with
\* the greatest createdAt.
C7_LatestIsMaxCreatedAt ==
  (formatted # Pending /\ Len(InputFulfillments) > 0 /\ DistinctInstants(InputFulfillments))
    => /\ \E i \in 1..Len(InputFulfillments) : latest = InputFulfillments[i]
       /\ \A i \in 1..Len(InputFulfillments) :
            InstantOf(InputFulfillments[i]) <= InstantOf(latest)

\* The list arrives oldest first, [2024-01-01, 2024-03-01], and also newest first.
C7_Witness ==
  /\ formatted # Pending
  /\ Len(InputFulfillments) = 2
  /\ InputFulfillments[1].createdAt = JsString(IsoDateChars(2024, 1, 1))
  /\ InputFulfillments[2].createdAt = JsString(IsoDateChars(2024, 3, 1))
  /\ latest = InputFulfillments[2]

NameIsAbsent(c, f) == ~Truthy(Field(c, f))
HasNoName(c) == NameIsAbsent(c, "firstName") /\ NameIsAbsent(c, "lastName")
NameOf(c) == FilterBooleanJoin(<<Field(c, "firstName"), Field(c, "lastName")>>, " ")

\* C9: customerName is the name of the separately supplied customer, else that of
\* the order's embedded customer, else "Valued Customer"; it is the placeholder
\* exactly when first and last name are absent on both, so a source with only a
\* last name yields that name.
C9_CustomerNamePrecedence ==
  Formatted =>
    /\ formatted.value.customerName = Text("Valued Customer")
         <=> (HasNoName(customer) /\ HasNoName(order.customer))
    /\ formatted.value.customerName =
         IF ~HasNoName(customer) THEN NameOf(customer)
         ELSE IF ~HasNoName(order.customer) THEN NameOf(order.customer)
         ELSE Text("Valued Customer")

ScenarioTag == W3DD(<<"w", "3", "d", "d">>, IsoDateChars(2024, 6, 15))

\* C10: for an order that requires shipping, statusMessage is the tag-derived
\* expected ship date when the tag parser yields one, else the formatted creation
\* date of the latest fulfillment when there is one, else "Awaiting shipment"; an
\* order tagged "w3dd:2024-06-15" with no fulfillments gets "June 15, 2024".
C10_StatusMessagePrecedence ==
  (Formatted /\ formatted.value.shippingInfo.isShippable) =>
    LET msg == formatted.value.shippingInfo.statusMessage
        tagDate == parseShippingDateFromTags(order.tags, tz)
    IN /\ msg = IF tagDate # JsNull THEN tagDate
                ELSE IF latest # JsNull THEN formatDate(latest.createdAt, tz)
                ELSE Text("Awaiting shipment")
       /\ (order.tags = JsArray(<<ScenarioTag>>) /\ InputFulfillments = <<>>)
            => msg = Text("June 15, 2024")


\* C16: an order with at least one line item whose optional structures are absent
\* or empty (tags, shipping address, fulfillments, a fulfillment's tracking or
\* covered items, a line item's variant or discount allocations, the embedded
\* customer) is formatted without an exception, with the defaults in the fields
\* concerned: a null address, null tracking fields, the variant "Default".
C16_SparseOrderNeverRaises ==
  (formatted # Pending /\ InputLineItems # <<>>) =>
    /\ ~formatted.raised
    /\ (formatted.value.shippingInfo.isShippable /\ order.shippingAddress = JsNull)
         => formatted.value.shippingInfo.address = JsNull
    /\ latest = JsNull => formatted.value.shippingInfo.carrier = JsNull
    /\ \A i \in 1..Len(InputLineItems) :
         InputLineItems[i].variant = JsNull => formatted.value.items[i].variant = Text("Default")

NotShipping ==
  [ isShippable |-> FALSE, address |-> JsNull,
    statusMessage |-> Text("This order does not require shipping."),
    carrier |-> JsNull, trackingNumber |-> JsNull, trackingUrl |-> JsNull ]

NoPhysicalItem ==
  \A i \in 1..Len(formatted.value.items) : formatted.value.items[i].itemCategory # "PHYSICAL"

\* C20: when no line item of the formatted order is PHYSICAL, shippingInfo is exactly
\* isShippable false, the message "This order does not require shipping." and null
\* for address, carrier, trackingNumber and trackingUrl, whatever the order's tags,
\* shipping address and fulfillments.
C20_NotShippableIsNulled ==
  (Formatted /\ NoPhysicalItem) => formatted.value.shippingInfo = NotShipping

\* An order that does not ship and has a date tag, an address and a tracked fulfillment.
C20_Witness ==
  /\ Formatted /\ NoPhysicalItem
  /\ order.tags = JsArray(<<ScenarioTag>>)
  /\ order.shippingAddress # JsNull
  /\ latest # JsNull /\ Len(latest.trackingInfo.items) > 0
  /\ formatted.value.shippingInfo = NotShipping

-----------------------------------------------------------------------------
(* Properties of the routes *)

Done == completed # JsNull
ByPhone(r) ==
  \/ r.route = "/getOrderByPhone"
  \/ r.route = "/get-order-details" /\ Field(r.body, "queryType") = Text("phone")
PhoneOf(r) == IF r.route = "/getOrderByPhone" THEN Field(r.body, "phone") ELSE Field(r.body, "value")
PhoneIsRejected(p) == ~Truthy(p) \/ normalizePhoneNumber(p) = JsNull

\* C2: a by-phone lookup whose phone is missing or rejected by the normalizer is
\* answered 400 with success false, and no upstream call is made for it: it is never
\* among the requests awaiting the upstream and it completes with no call made.
C2_InvalidPhoneFailsFast ==
  /\ \A i \in 1..Len(inflight) :
       ByPhone(inflight[i]) => ~PhoneIsRejected(PhoneOf(inflight[i]))
  /\ (Done /\ ByPhone(completed) /\ PhoneIsRejected(PhoneOf(completed)))
       => /\ completed.calls = 0
          /\ completed.response.status = 400
          /\ completed.response.body.success = FALSE

\* No customer, or a customer with no order, came back from the upstream.
NoCustomerOrder(data) ==
  \/ data = JsNull
  \/ data.customers.items = <<>>
  \/ data.customers.items[1].orders.items = <<>>
NoOrder(data) == data = JsNull \/ data.orders.items = <<>>

ZeroRecords ==
  /\ Done
  /\ completed.calls = 1
  /\ completed.upstream.resolved
  /\ \/ completed.route = "/getOrderByPhone" /\ NoCustomerOrder(completed.upstream.data)
     \/ completed.route = "/getOrderById" /\ NoOrder(completed.upstream.data)

\* C3: when the upstream call of /getOrderByPhone or /getOrderById resolves with zero
\* matching records the response has status 200 and a body of exactly success false
\* and a message; for the phone "555-123-4567" the message is
\* "I couldn't find any recent orders with that phone number."
C3_NotFoundIsSuccessFalse ==
  ZeroRecords =>
    /\ completed.response.status = 200
    /\ DOMAIN completed.response.body = {"success", "message"}
    /\ completed.response.body.success = FALSE
    /\ completed.response.body.message.t = "text"
    /\ completed.response.body.message.str # ""
    /\ (completed.route = "/getOrderByPhone" /\ completed.body.phone = JsString(ScenarioPhone))
         => completed.response.body =
              [success |-> FALSE,
               message |-> Text("I couldn't find any recent orders with that phone number.")]

C3_Witness ==
  /\ ZeroRecords
  /\ completed.route = "/getOrderByPhone"
  /\ completed.body.phone = JsString(ScenarioPhone)
  /\ completed.upstream.data = [customers |-> JsArray(<<>>)]
  /\ completed.response.status = 200

\* C4: when the upstream call throws the response is 500 with a body of exactly
\* success false and an error message, and the message of the thrown error is no part
\* of the body.
C4_UpstreamErrorNotEchoed ==
  (Done /\ completed.calls = 1 /\ ~completed.upstream.resolved) =>
    /\ completed.response.status = 500
    /\ DOMAIN completed.response.body = {"success", "error"}
    /\ completed.response.body.success = FALSE
    /\ completed.response.body.error # completed.upstream.error


\* The order number with surrounding whitespace trimmed and a leading '#' removed.
ExpectedFilterKey(orderNumber) ==
  LET t == trim(orderNumber.s)
  IN trim(IF StartsWithChar(t, "#") THEN SubSeq(t, 2, Len(t)) ELSE t)

ById(r) == r.route = "/getOrderById" /\ IsString(Field(r.body, "orderNumber"))

\* C12: the filter key /getOrderById sends upstream is the order number with a leading
\* '#' removed and surrounding whitespace trimmed, nothing else changed: "#1024" gives
\* "1024" and a '#' elsewhere in the number stays.
C12_OrderNumberFilterKey ==
  /\ \A i \in 1..Len(inflight) :
       ById(inflight[i]) =>
         inflight[i].variables.nameQuery =
           Text("name:" \o CharsToStr(ExpectedFilterKey(inflight[i].body.orderNumber)))
  /\ \A i \in 1..Len(inflight) :
       (ById(inflight[i]) /\ inflight[i].body.orderNumber = OrderNumber)
         => inflight[i].variables.nameQuery = Text("name:1024")

ByEmail(r) ==
  /\ r.route \in {"/get-order-details", "/get-customer-details"}
  /\ Field(r.body, "queryType") = Text("email")
  /\ IsString(Field(r.body, "value"))

\* local@domain with at least one dot in the domain
HasEmailShape(chars) ==
  \E at \in 2..Len(chars) - 1 :
    /\ chars[at] = "@"
    /\ \A i \in 1..Len(chars) : chars[i] = "@" => i = at
    /\ \E dot \in at + 2..Len(chars) - 1 : chars[dot] = "."

\* C13: a lookup by email whose email is not of the shape local@domain with a dot in
\* the domain is answered with a 400-class status and makes no upstream call: it is
\* never among the requests awaiting the upstream.
C13_MalformedEmailRejected ==
  /\ \A i \in 1..Len(inflight) :
       ByEmail(inflight[i]) => HasEmailShape(inflight[i].body.value.s)
  /\ (Done /\ ByEmail(completed) /\ ~HasEmailShape(completed.body.value.s))
       => /\ completed.calls = 0
          /\ completed.response.status \in 400..499

\* C14: a request makes at most one call of fetchShopifyData over its lifetime: while
\* it awaits the upstream it has made one, and when its handler has finished, on
\* whichever path, it has made none or one; after a call that threw it has made one.
C14_AtMostOneUpstreamCall ==
  /\ \A i \in 1..Len(inflight) : inflight[i].calls = 1
  /\ Done => completed.calls \in {0, 1}
  /\ (Done /\ completed.upstream # JsNull) => completed.calls = 1

\* A request whose call threw was answered 500 after its one call.
C14_Witness ==
  /\ Done
  /\ completed.upstream # JsNull /\ ~completed.upstream.resolved
  /\ completed.calls = 1
  /\ completed.response.status = 500

\* The response of a request that runs alone with this input and this upstream result.
AloneResponse(r) ==
  IF r.upstream.resolved THEN Resolved(r.route, r.body, r.upstream.data, tz)
  ELSE Rejected(r.route, r.upstream.error)

-----------------------------------------------------------------------------
(* Shippability, categories, summary and names of the formatted order *)

\* C21: shippingInfo.isShippable is true exactly when at least one formatted line
\* item is PHYSICAL; an order with no line items is formatted as not shippable.
C21_ShippableIffPhysicalItem ==
  (formatted # Pending /\ (Formatted \/ InputLineItems = <<>>)) =>
    /\ Formatted
    /\ formatted.value.shippingInfo.isShippable
         = (\E i \in 1..Len(formatted.value.items) :
              formatted.value.items[i].itemCategory = "PHYSICAL")


\* The product type of a line item of the input, null when it has no variant,
\* product or product type.
ProductTypeOf(node) == Field(Field(Field(node, "variant"), "product"), "productType")

\* C22: a formatted line item's itemCategory is "PHYSICAL" exactly when the item
\* requires shipping or its product type is "Embroidered Patches" or "Alterations",
\* and "DIGITAL" otherwise, also for an item with no variant or product type.
C22_ItemCategory ==
  Formatted =>
    \A i \in 1..Len(InputLineItems) :
      formatted.value.items[i].itemCategory =
        IF \/ InputLineItems[i].requiresShipping
           \/ ProductTypeOf(InputLineItems[i]) \in {Text("Embroidered Patches"), Text("Alterations")}
        THEN "PHYSICAL" ELSE "DIGITAL"

\* An item that does not require shipping is PHYSICAL by its product type, next to
\* a DIGITAL one.
C22_Witness ==
  /\ Formatted
  /\ Len(InputLineItems) = 2
  /\ ~InputLineItems[1].requiresShipping
  /\ ProductTypeOf(InputLineItems[1]) = Text("Alterations")
  /\ formatted.value.items[1].itemCategory = "PHYSICAL"
  /\ formatted.value.items[2].itemCategory = "DIGITAL"


\* C23: for an order with n >= 1 line items, itemsSummary is "<quantity>x <title>"
\* of the first item of the upstream list when n = 1, and that followed by
\* " and <n-1> other item(s)" when n > 1.
C23_ItemsSummary ==
  Formatted =>
    LET n == Len(InputLineItems)
        head == ToString(InputLineItems[1].quantity) \o "x " \o InputLineItems[1].title.str
    IN formatted.value.itemsSummary =
         Text(IF n = 1 THEN head ELSE head \o " and " \o ToString(n - 1) \o " other item(s)")

\* Two line items, summarized by the first.
C23_Witness ==
  /\ Formatted
  /\ Len(InputLineItems) = 2
  /\ formatted.value.itemsSummary = Text("1x Retro Jacket and 1 other item(s)")


\* C24: customerName of every formatted order is a non-empty string, whichever of
\* the first and last names of the separately supplied customer and of the order's
\* embedded customer are present, absent or empty.
C24_CustomerNameNonEmpty ==
  Formatted =>
    /\ formatted.value.customerName.t = "text"
    /\ formatted.value.customerName.str # ""

\* Empty names on the supplied customer, none on the embedded one: the placeholder.
C24_Witness ==
  /\ Formatted
  /\ customer # JsNull /\ customer.firstName = Text("") /\ customer.lastName = Text("")
  /\ order.customer # JsNull /\ order.customer.firstName = JsNull
  /\ formatted.value.customerName = Text("Valued Customer")


-----------------------------------------------------------------------------
(* Expected ship date, tracking, discounts *)

\* The date that the whole text after the first colon of a marked tag names, as a
\* UTC calendar date, human-formatted; null when there is none.
ClaimedShipDate(tags) ==
  IF ~IsArray(tags) THEN JsNull
  ELSE LET dateTag == FindDateTag(tags.items) IN
       IF dateTag = JsNull THEN JsNull
       ELSE LET rest == trim(SubSeq(dateTag.s, Len(TagMarker) + 1, Len(dateTag.s)))
                date == NewDate(JsString(rest \o <<"T", "0", "0", ":", "0", "0", ":", "0", "0", "Z">>))
            IN IF rest = <<>> \/ date = InvalidDate THEN JsNull
               ELSE Text(toLocaleDateString(date, 0))

\* C25: parseShippingDateFromTags takes the first tag that starts with "w3dd:" in
\* any case, reads the whole trimmed text after the first colon as a calendar date
\* at UTC midnight and yields that same calendar date, human-formatted; it yields
\* null when there are no tags, no marked tag, no text after the colon, or no date
\* in that text.
C25_ShipDateFromTags ==
  formatted # Pending => shipDate = ClaimedShipDate(Field(order, "tags"))


\* The position in a non-empty fulfillment list of the first record that has the
\* greatest creation instant.
FirstOfLatest(fs) ==
  CHOOSE i \in 1..Len(fs) :
    /\ \A j \in 1..Len(fs) : InstantOf(fs[j]) <= InstantOf(fs[i])
    /\ \A j \in 1..(i - 1) : InstantOf(fs[j]) < InstantOf(fs[i])

HasTracking(f) == IsArray(Field(f, "trackingInfo")) /\ Len(f.trackingInfo.items) > 0

\* C26: for a shippable order, carrier, trackingNumber and trackingUrl are those of
\* the first tracking entry of the latest fulfillment and of no other; all three are
\* null when there are no fulfillments or the latest one has no tracking entry, even
\* when an older fulfillment has one.
C26_TrackingOfLatestOnly ==
  (Formatted /\ formatted.value.shippingInfo.isShippable) =>
    LET info == formatted.value.shippingInfo
        fs == InputFulfillments
    IN IF fs # <<>> /\ HasTracking(fs[FirstOfLatest(fs)])
       THEN LET entry == fs[FirstOfLatest(fs)].trackingInfo.items[1]
            IN /\ info.carrier = entry.company
               /\ info.trackingNumber = entry.number
               /\ info.trackingUrl = entry.url
       ELSE info.carrier = JsNull /\ info.trackingNumber = JsNull /\ info.trackingUrl = JsNull

\* The older fulfillment has a tracking entry, the latest has none: no tracking.
C26_Witness ==
  /\ Formatted /\ formatted.value.shippingInfo.isShippable
  /\ Len(InputFulfillments) = 2
  /\ InstantOf(InputFulfillments[1]) < InstantOf(InputFulfillments[2])
  /\ HasTracking(InputFulfillments[1]) /\ ~HasTracking(InputFulfillments[2])
  /\ formatted.value.shippingInfo.trackingNumber = JsNull


\* The cents of an amount written with two decimals, and of a list of allocations.
CentsOf(amount) == DigitsToNat(StripNonDigits(amount.s))

RECURSIVE TotalCents(_)
TotalCents(allocations) ==
  IF allocations = <<>> THEN 0
  ELSE CentsOf(Head(allocations).allocatedAmountSet.shopMoney.amount) + TotalCents(Tail(allocations))

\* C27: a formatted line item's discount is the sum of the amounts of all of its
\* discount allocations, formatted in the currency of its unit price; it is null
\* when the item has no allocations or the amounts sum to zero.
C27_DiscountIsSumOfAllocations ==
  Formatted =>
    \A i \in 1..Len(InputLineItems) :
      LET total == TotalCents(InputLineItems[i].discountAllocations.items)
          currency == InputLineItems[i].originalUnitPriceSet.shopMoney.currencyCode
      IN formatted.value.items[i].discount =
           IF total = 0 THEN JsNull
           ELSE Text(CurrencySymbol(currency) \o Grouped(total \div 100) \o "."
                     \o Pad(total % 100, 2))

\* Allocations of 2.50 and 1.25 in USD on an item priced in CAD: "CA$3.75".
C27_Witness ==
  /\ Formatted
  /\ Len(InputLineItems[1].discountAllocations.items) = 2
  /\ InputLineItems[1].discountAllocations.items[1].allocatedAmountSet
       = Chars_USD(<<"2", ".", "5", "0">>)
  /\ InputLineItems[1].discountAllocations.items[2].allocatedAmountSet
       = Chars_USD(<<"1", ".", "2", "5">>)
  /\ formatted.value.items[1].discount = Text("CA$3.75")


\* C29: when two or more fulfillments share the greatest creation timestamp, the
\* latest fulfillment picked is the first of them in the list as it arrived, and
\* the order's own list is left as it arrived.
C29_TieKeepsFirst ==
  /\ [](( formatted # Pending /\ Len(InputFulfillments) > 0)
          => latest = InputFulfillments[FirstOfLatest(InputFulfillments)])
  /\ [][order' = order]_vars

\* Two different fulfillments of the same instant: the first one is picked.
C29_Witness ==
  /\ formatted # Pending
  /\ Len(InputFulfillments) = 2
  /\ InstantOf(InputFulfillments[1]) = InstantOf(InputFulfillments[2])
  /\ InputFulfillments[1] # InputFulfillments[2]
  /\ latest = InputFulfillments[1]


-----------------------------------------------------------------------------
(* Lookups by phone and the one response of a request *)

Succeeded(r) == r.response.status = 200 /\ r.response.body.success
UpstreamResolved(r) == r.upstream # JsNull /\ r.upstream.resolved

\* C28: the by-phone lookup answers success true with an order only when the
\* upstream result holds a customer that has an order, and answers not-found when
\* it resolves with none; its orders-by-phone version returns the order only when
\* the normalized phone of the order's customer equals the normalized phone asked for.
C28_SuccessOnlyForMatch ==
  Done =>
    /\ (completed.route = "/getOrderByPhone" /\ Succeeded(completed)) =>
         /\ UpstreamResolved(completed)
         /\ ~NoCustomerOrder(completed.upstream.data)
         /\ completed.response.body.order.orderNumber
              = completed.upstream.data.customers.items[1].orders.items[1].name
    /\ ( /\ completed.route = "/getOrderByPhone" /\ UpstreamResolved(completed)
         /\ NoCustomerOrder(completed.upstream.data) ) =>
         /\ completed.response.status = 200
         /\ ~completed.response.body.success
         /\ "message" \in DOMAIN completed.response.body
    /\ (completed.route = ByOrders /\ Succeeded(completed)) =>
         /\ UpstreamResolved(completed)
         /\ ~NoOrder(completed.upstream.data)
         /\ LET returned == completed.upstream.data.orders.items[1]
            IN /\ Truthy(Field(Field(returned, "customer"), "phone"))
               /\ normalizePhoneNumber(returned.customer.phone)
                    = normalizePhoneNumber(completed.body.phone)
               /\ completed.response.body.order.orderNumber = returned.name

\* The orders query came back with the order of a customer with another phone, and
\* the request was answered not-found.
C28_Witness ==
  /\ Done
  /\ completed.route = ByOrders
  /\ UpstreamResolved(completed)
  /\ ~NoOrder(completed.upstream.data)
  /\ Truthy(Field(Field(completed.upstream.data.orders.items[1], "customer"), "phone"))
  /\ normalizePhoneNumber(completed.upstream.data.orders.items[1].customer.phone)
       # normalizePhoneNumber(completed.body.phone)
  /\ completed.response.status = 200
  /\ ~completed.response.body.success


\* The four answers of the lookup routes.
IsValidationError(response) ==
  /\ response.status = 400
  /\ DOMAIN response.body = {"success", "error"} /\ ~response.body.success
IsSuccess(response) ==
  /\ response.status = 200
  /\ DOMAIN response.body = {"success", "order"} /\ response.body.success
IsNotFound(response) ==
  /\ response.status = 200
  /\ DOMAIN response.body = {"success", "message"} /\ ~response.body.success
IsGenericError(response) ==
  /\ response.status = 500
  /\ response.body = [success |-> FALSE, error |-> GenericError]

\* C30: every request to /getOrderByPhone or /getOrderById that its handler is
\* done with was answered, with one of: a 400 validation error, 200 with success
\* true, 200 with success false and a not-found message, the generic 500 error; a
\* formatter exception after the upstream call resolved is answered with the
\* generic 500 error.
C30_EveryRequestAnswered ==
  (Done /\ completed.route \in {"/getOrderByPhone", "/getOrderById"}) =>
    /\ \/ IsValidationError(completed.response)
       \/ IsSuccess(completed.response)
       \/ IsNotFound(completed.response)
       \/ IsGenericError(completed.response)
    /\ ( /\ UpstreamResolved(completed)
         /\ completed.route = "/getOrderById"
         /\ ~NoOrder(completed.upstream.data)
         /\ formatOrderForAI(completed.upstream.data.orders.items[1], JsNull, tz).raised )
         => IsGenericError(completed.response)

====
